---- MODULE Spec2Model ----
(***************************************************************************)
(* Job lifecycle and dispatch core of video-transcriber.                   *)
(*                                                                         *)
(*   Spec       one worker process: TranscriptionQueueManager, its worker  *)
(*              threads running process_transcription_job, the callers of  *)
(*              add_job and the module-level _model_lock.                  *)
(*   SpecFair   Spec with the worker threads scheduled fairly.             *)
(*   SpecStore  the Job Store (job tables behind the API service) and the  *)
(*              worker processes that claim, start, complete, fail and     *)
(*              retry jobs through its endpoints.                          *)
(*   SpecEvents SpecStore plus the event path: uploads publish             *)
(*              job.status.changed events and the worker processes handle  *)
(*              them.                                                      *)
(*   SpecProc   one run of a processing function (transcription,           *)
(*              summarization, translation) and the status calls it makes. *)
(*   SpecClient RabbitMQClient.connect and close.                          *)
(*   SpecPublish   RabbitMQClient.publish_event: its retry loop and the    *)
(*              truncation of oversized payloads.                          *)
(*   SpecConsumer  a subscription: delivery, message_handler, ack / nack.  *)
(*   SpecMain   the main module of a service: run_event_based_worker,      *)
(*              run_worker and run_polling_worker with the event handler.  *)
(*   SpecModel  the WhisperX model of a transcription worker process and   *)
(*              the functions that hand it out.                            *)
(*   SpecHandoff   the transcription service in event mode: how pending    *)
(*              jobs reach queue_manager.add_job.                          *)
(*   SpecRestart   a queue manager whose start() and stop() are called     *)
(*              more than once.                                            *)
(***************************************************************************)
EXTENDS Integers, Sequences, FiniteSets, TLC

\* ------------------------------------------------------------------ bounds
MaxWorkers == 2      \* max_workers handed to TranscriptionQueueManager
MaxJobIds  == 2      \* distinct job ids offered to add_job
MaxAdds    == 2      \* add_job calls in one run

MaxProcs   == 2      \* worker processes talking to the Job Store
MaxJobs    == 3      \* rows created in the job tables
MaxTime    == 1      \* ticks of datetime.utcnow()
MaxCalls   == 3      \* claim requests, retry requests and event deliveries

MaxTrace   == 1002   \* longest traceback text, in characters

MaxMsgs       == 2   \* messages waiting in a subscription's queue
MaxDeliveries == 3   \* deliveries to message_handler

MaxRequests   == 3   \* requests for the WhisperX model

MaxStarts     == 3   \* start() calls on one queue manager

Workers == 1..MaxWorkers
JobIds  == 1..MaxJobIds
Callers == {"event", "poll"}
NoJob   == 0
NoOwner == "none"     \* self.lock is free
NoThread == 0         \* _model_lock is free
Procs   == 1..MaxProcs
Null    == -1         \* a NULL column

\* --------------------------------------------------------------- variables
VARIABLES
    \* TranscriptionQueueManager
    running,        \* self.running
    job_queue,      \* self.job_queue (FIFO of job ids)
    active_jobs,    \* keys of self.active_jobs
    lock,           \* holder of self.lock
    wpc, wjob, wres,    \* worker thread: position, job_id, outcome of processor_fn
    apc, ajob,          \* add_job caller: position, job_id
    \* transcription_worker module globals
    model_lock,     \* holder of _model_lock
    model_loaded,   \* _model_loaded
    \* observation of the run
    calls, dups, executions,
    \* Job Store
    jobs,           \* TranscriptionJob rows, in id order
    now,            \* datetime.utcnow()
    retry_response, \* status code of the last retry call
    ncalls,         \* claim requests, retry requests and event deliveries so far
    \* a worker process: position, job in hand
    ppc, pjob,
    \* job.status.changed{status=pending} events published and not yet
    \* delivered, by job id
    events,
    \* one run of a processing function
    kind,           \* job kind of the attempt
    step,           \* position inside the function
    nstarted, ncompleted, nfailed,  \* status calls made by the attempt
    raised_in,      \* the step whose exception reached the except block
    trace_len,      \* len(traceback.format_exc()) in the except block
    sent,           \* error_details handed to the last "failed" call
    stored,         \* status of the attempt's job in the Store
    artifact,       \* the transcript / summary / translation is in the Store
    response,       \* how the last request to the API ended
    event_out,      \* how the publish that followed that request ended
    nbus,           \* publishes of the attempt that failed
    returned,       \* what the processing function returned
    \* RabbitMQClient
    connection,     \* self.connection: None, an open or a closed connection
    channel,        \* self.channel
    cpc,            \* position inside connect()
    attempt,        \* loop variable of connect()
    nattempts,      \* pika.BlockingConnection calls of the current connect()
    slept,          \* seconds connect() has slept
    last_op,        \* how the last call on the client ended
    raised,         \* exception the last connect() let out
    close_err,      \* the last close() met an error in connection.close()
    \* a subscription and its message_handler
    inbox,          \* messages waiting in the subscription's queue
    mpc,            \* position inside message_handler
    mbody,          \* body of the message in hand
    handler,        \* the callback installed by subscribe_to_event
    cb_out,         \* how the callback ended for the message in hand
    delivered, acked, nacked,
    \* one caller of RabbitMQClient.publish_event
    pubpc,          \* position inside publish_event
    pattempt,       \* loop variable of publish_event
    npasses,        \* passes of the loop body in the current call
    pub_out,        \* how the last publish_event call ended
    payload,        \* the dict handed to publish_event
    npubs,          \* publish_event calls made with this dict
    body,           \* len(body) of the last basic_publish that succeeded
    body_marked,    \* that body holds "... (truncated)"
    first_body,     \* len(body) of the first message published from this dict
    \* the main module of a service: its main thread
    svc,            \* the service whose main module runs
    mode,           \* --mode
    mpos,           \* position of the main thread
    ended_by,       \* what ended the run
    nsubs,          \* subscribe_to_event calls that returned
    backlog,        \* pending jobs of the service's kind in the Store
    nstore,         \* requests to the API made by the main thread
    nmain,          \* runs of the processing function outside the consume loop
    ninline,        \* runs of the processing function inside the consume loop
    nevents,        \* job.status.changed events handled
    last_event,     \* the event handled last
    npolls,         \* passes of the polling loop
    last_poll,      \* what the last pass of the polling loop got
    \* the WhisperX model of a transcription worker process
    tmodule,        \* the transcription_worker module the process imported
    model,          \* _model: None or the handle of a loaded model
    nloads,         \* whisperx.load_model calls that returned a model
    tpc, tfn,       \* a thread's position in a getter, and the getter
    got,            \* what the thread's last request for the handle returned
    nrequests,      \* requests for the handle so far
    \* the transcription service in event mode: its main thread
    hmain,          \* position of run_event_based_worker
    manager,        \* the queue_manager module the service runs with
    video_events,   \* video.created events published and not yet delivered
    handed,         \* ids of the jobs given to queue_manager.add_job
    \* a queue manager that is started and stopped more than once
    tpos,           \* position of every thread start() has spawned or may spawn
    nthreads,       \* threads spawned so far
    workers,        \* self.workers
    nstarts         \* start() calls so far

qmvars == <<running, job_queue, active_jobs, lock, wpc, wjob, wres, apc, ajob,
            model_lock, model_loaded, calls, dups, executions>>

stvars == <<jobs, now, retry_response, ncalls, ppc, pjob, events>>

prvars == <<kind, step, nstarted, ncompleted, nfailed, raised_in, trace_len, sent,
            stored, artifact, response, event_out, nbus, returned>>

clvars == <<connection, channel, cpc, attempt, nattempts, slept, last_op, raised,
            close_err>>

csvars == <<inbox, mpc, mbody, handler, cb_out, delivered, acked, nacked>>

pbvars == <<pubpc, pattempt, npasses, pub_out, payload, npubs, body, body_marked,
            first_body>>

dwvars == <<svc, mode, mpos, ended_by, nsubs, backlog, nstore, nmain, ninline,
            nevents, last_event, npolls, last_poll>>

mdvars == <<tmodule, model, nloads, tpc, tfn, got, nrequests>>

hovars == <<hmain, manager, video_events, handed>>

rsvars == <<tpos, nthreads, workers, nstarts>>

vars == <<qmvars, stvars, prvars, clvars, csvars, pbvars, dwvars, mdvars, hovars,
          rsvars>>

\* ----------------------------------------------------------------- helpers
Range(s) == {s[i] : i \in DOMAIN s}

\* positions of a worker thread between queue.get() and the removal from
\* active_jobs
InProcessor == {"get_model", "loading", "want_lock", "inference", "report"}
Holding     == {"process"} \cup InProcessor \cup {"returned"}

Executing(j) == \E w \in Workers : wjob[w] = j /\ wpc[w] \in InProcessor
Queued(j)    == j \in Range(job_queue)
InFlight(j)  == Queued(j) \/ \E w \in Workers : wjob[w] = j /\ wpc[w] \in Holding

RECURSIVE SumTo(_, _)
SumTo(f, n) == IF n = 0 THEN 0 ELSE f[n] + SumTo(f, n - 1)
TotalCalls  == SumTo(calls, MaxJobIds)

\* ------------------------------------------------------------------- Init
\* TranscriptionQueueManager.__init__ and the module globals
InitQM ==
    /\ running = FALSE
    /\ job_queue = <<>>
    /\ active_jobs = {}
    /\ lock = NoOwner
    /\ wpc = [w \in Workers |-> "not_started"]
    /\ wjob = [w \in Workers |-> NoJob]
    /\ wres = [w \in Workers |-> "none"]
    /\ apc = [c \in Callers |-> "idle"]
    /\ ajob = [c \in Callers |-> NoJob]
    /\ model_lock = NoThread
    /\ model_loaded = FALSE
    /\ calls = [j \in JobIds |-> 0]
    /\ dups = [j \in JobIds |-> 0]
    /\ executions = [j \in JobIds |-> 0]

\* ------------------------------------------------- TranscriptionQueueManager
\* get_queue_status(): what it returns when it gets self.lock in this state
get_queue_status ==
    [queue_size |-> Len(job_queue),
     active_jobs |-> Cardinality(active_jobs),
     max_workers |-> MaxWorkers,
     running |-> running]

\* start(job_processor): sets running and spawns max_workers threads; the
\* service calls it once, before it subscribes to events
start ==
    /\ ~running
    /\ \A w \in Workers : wpc[w] = "not_started"
    /\ running' = TRUE
    /\ wpc' = [w \in Workers |-> "loop"]
    /\ UNCHANGED <<job_queue, active_jobs, lock, wjob, wres, apc, ajob,
                   model_lock, model_loaded, calls, dups, executions>>
    /\ UNCHANGED <<stvars, prvars, clvars, csvars, pbvars, dwvars, mdvars, hovars, rsvars>>

\* stop(): clears running; join(timeout=5) does not wait for a thread that is
\* busy with a job
stop ==
    /\ running
    /\ running' = FALSE
    /\ UNCHANGED <<job_queue, active_jobs, lock, wpc, wjob, wres, apc, ajob,
                   model_lock, model_loaded, calls, dups, executions>>
    /\ UNCHANGED <<stvars, prvars, clvars, csvars, pbvars, dwvars, mdvars, hovars, rsvars>>

\* add_job, entry: job_id = job_data.get("id"); the caller goes on to
\* "with self.lock"
add_job_call(c, j) ==
    /\ apc[c] = "idle"
    /\ TotalCalls < MaxAdds
    /\ apc' = [apc EXCEPT ![c] = "lock"]
    /\ ajob' = [ajob EXCEPT ![c] = j]
    /\ calls' = [calls EXCEPT ![j] = @ + 1]
    /\ UNCHANGED <<running, job_queue, active_jobs, lock, wpc, wjob, wres,
                   model_lock, model_loaded, dups, executions>>
    /\ UNCHANGED <<stvars, prvars, clvars, csvars, pbvars, dwvars, mdvars, hovars, rsvars>>

\* add_job without its duplicate test
AlreadyActive_Never(j) == FALSE

\* the test "job_id in self.active_jobs" of add_job
AlreadyActive(j) == j \in active_jobs

\* add_job: acquires self.lock and tests active_jobs; a duplicate returns
\* (releasing the lock), otherwise the caller keeps the lock and goes on
add_job_check(c) ==
    /\ apc[c] = "lock"
    /\ lock = NoOwner
    /\ dups' = [dups EXCEPT ![ajob[c]] = IF InFlight(ajob[c]) THEN @ + 1 ELSE @]
    /\ IF AlreadyActive(ajob[c])
          THEN /\ apc' = [apc EXCEPT ![c] = "idle"]
               /\ ajob' = [ajob EXCEPT ![c] = NoJob]
               /\ lock' = lock
          ELSE /\ apc' = [apc EXCEPT ![c] = "put"]
               /\ ajob' = ajob
               /\ lock' = c
    /\ UNCHANGED <<running, job_queue, active_jobs, wpc, wjob, wres,
                   model_lock, model_loaded, calls, executions>>
    /\ UNCHANGED <<stvars, prvars, clvars, csvars, pbvars, dwvars, mdvars, hovars, rsvars>>

\* add_job: self.job_queue.put(job_data)
add_job_put(c) ==
    /\ apc[c] = "put"
    /\ job_queue' = Append(job_queue, ajob[c])
    /\ apc' = [apc EXCEPT ![c] = "register"]
    /\ UNCHANGED <<running, active_jobs, lock, wpc, wjob, wres, ajob,
                   model_lock, model_loaded, calls, dups, executions>>
    /\ UNCHANGED <<stvars, prvars, clvars, csvars, pbvars, dwvars, mdvars, hovars, rsvars>>

\* an add_job that queues the job without recording it
AfterRegister_Skipped(a, j) == a

\* self.active_jobs[job_id] = job_data
AfterRegister(a, j) == a \cup {j}

\* add_job: self.active_jobs[job_id] = job_data, then the lock is released
add_job_register(c) ==
    /\ apc[c] = "register"
    /\ active_jobs' = AfterRegister(active_jobs, ajob[c])
    /\ lock' = NoOwner
    /\ apc' = [apc EXCEPT ![c] = "idle"]
    /\ ajob' = [ajob EXCEPT ![c] = NoJob]
    /\ UNCHANGED <<running, job_queue, wpc, wjob, wres,
                   model_lock, model_loaded, calls, dups, executions>>
    /\ UNCHANGED <<stvars, prvars, clvars, csvars, pbvars, dwvars, mdvars, hovars, rsvars>>

\* a get() that reads the head without taking it
AfterGet_Peek(q) == q

\* what job_queue.get() leaves in the queue
AfterGet(q) == Tail(q)

\* _worker_thread: job_queue.get(timeout=1) returned a job.  A thread at
\* "loop" has found "while self.running" true and waits inside get, which
\* does not look at running
worker_get(w) ==
    /\ wpc[w] = "loop"
    /\ job_queue # <<>>
    /\ wjob' = [wjob EXCEPT ![w] = Head(job_queue)]
    /\ job_queue' = AfterGet(job_queue)
    /\ wpc' = [wpc EXCEPT ![w] = "process"]
    /\ UNCHANGED <<running, active_jobs, lock, wres, apc, ajob,
                   model_lock, model_loaded, calls, dups, executions>>
    /\ UNCHANGED <<stvars, prvars, clvars, csvars, pbvars, dwvars, mdvars, hovars, rsvars>>

\* _worker_thread: get raised queue.Empty, "continue", and "while
\* self.running" is found false: the thread ends
worker_exit(w) ==
    /\ wpc[w] = "loop"
    /\ ~running
    /\ wpc' = [wpc EXCEPT ![w] = "exited"]
    /\ UNCHANGED <<running, job_queue, active_jobs, lock, wjob, wres, apc, ajob,
                   model_lock, model_loaded, calls, dups, executions>>
    /\ UNCHANGED <<stvars, prvars, clvars, csvars, pbvars, dwvars, mdvars, hovars, rsvars>>

\* a worker loop without "except Exception" around the processor call
AfterProcessor_Propagates(r) == IF r = "raised" THEN "exited" ELSE "returned"

\* _worker_thread, where the thread stands once self.job_processor(job_id)
\* ended with outcome r: the try/except around the call logs every outcome
\* and falls through to the removal
AfterProcessor(r) == "returned"

\* _worker_thread: success = self.job_processor(job_id) is entered.  The
\* processor is process_transcription_job; its Store reads before the
\* inference either go through, or the processor ends here: it returns
\* False from its except block or an exception leaves it.
worker_process(w) ==
    /\ wpc[w] = "process"
    /\ executions' = [executions EXCEPT ![wjob[w]] = @ + 1]
    /\ \/ /\ wpc' = [wpc EXCEPT ![w] = "get_model"]
          /\ wres' = wres
       \/ \E r \in {"failed", "raised"} :
             /\ wpc' = [wpc EXCEPT ![w] = AfterProcessor(r)]
             /\ wres' = [wres EXCEPT ![w] = r]
    /\ UNCHANGED <<running, job_queue, active_jobs, lock, wjob, apc, ajob,
                   model_lock, model_loaded, calls, dups>>
    /\ UNCHANGED <<stvars, prvars, clvars, csvars, pbvars, dwvars, mdvars, hovars, rsvars>>

\* ------------------------------------------------------ transcription_worker
\* a lock that never blocks
CanAcquire_Always(l) == TRUE

\* a threading.Lock can be taken only when nobody holds it
CanAcquire(l) == l = NoThread

\* a getter that leaves its with block with the lock still taken
ReturnLoaded_Held(l, w) == w

\* the lock after thread w took it and left "with _model_lock" through
\* "return _model, _device"
ReturnLoaded(l, w) == NoThread

\* get_whisperx_model: "with _model_lock"; a loaded model is returned at once
get_whisperx_model(w) ==
    /\ wpc[w] = "get_model"
    /\ CanAcquire(model_lock)
    /\ IF model_loaded
          THEN /\ wpc' = [wpc EXCEPT ![w] = "want_lock"]
               /\ model_lock' = ReturnLoaded(model_lock, w)
          ELSE /\ wpc' = [wpc EXCEPT ![w] = "loading"]
               /\ model_lock' = w
    /\ UNCHANGED <<running, job_queue, active_jobs, lock, wjob, wres, apc, ajob,
                   model_loaded, calls, dups, executions>>
    /\ UNCHANGED <<stvars, prvars, clvars, csvars, pbvars, dwvars, mdvars, hovars, rsvars>>

\* a with block that keeps the lock when it is left
AfterWith_Held(l) == l

\* "with _model_lock": the lock is released when the block is left, by
\* return or by an exception
AfterWith(l) == NoThread

\* get_whisperx_model: one of models_to_try loads, or all of them fail and
\* RuntimeError is raised; the lock is released either way, and
\* process_transcription_job goes to its except block
load_model(w) ==
    /\ wpc[w] = "loading"
    /\ model_lock' = AfterWith(model_lock)
    /\ \/ /\ model_loaded' = TRUE
          /\ wpc' = [wpc EXCEPT ![w] = "want_lock"]
          /\ wres' = wres
       \/ /\ model_loaded' = model_loaded
          /\ wpc' = [wpc EXCEPT ![w] = "report"]
          /\ wres' = [wres EXCEPT ![w] = "failed"]
    /\ UNCHANGED <<running, job_queue, active_jobs, lock, wjob, apc, ajob,
                   calls, dups, executions>>
    /\ UNCHANGED <<stvars, prvars, clvars, csvars, pbvars, dwvars, mdvars, hovars, rsvars>>

\* transcribe_with_whisperx: "with _model_lock" is entered
inference_enter(w) ==
    /\ wpc[w] = "want_lock"
    /\ CanAcquire(model_lock)
    /\ model_lock' = w
    /\ wpc' = [wpc EXCEPT ![w] = "inference"]
    /\ UNCHANGED <<running, job_queue, active_jobs, lock, wjob, wres, apc, ajob,
                   model_loaded, calls, dups, executions>>
    /\ UNCHANGED <<stvars, prvars, clvars, csvars, pbvars, dwvars, mdvars, hovars, rsvars>>

\* transcribe_with_whisperx: the with block is left by return or by an
\* exception, and process_transcription_job goes on to its calls to the API
inference_exit(w) ==
    /\ wpc[w] = "inference"
    /\ model_lock' = AfterWith(model_lock)
    /\ \E r \in {"ok", "failed"} :
          /\ wpc' = [wpc EXCEPT ![w] = "report"]
          /\ wres' = [wres EXCEPT ![w] = r]
    /\ UNCHANGED <<running, job_queue, active_jobs, lock, wjob, apc, ajob,
                   model_loaded, calls, dups, executions>>
    /\ UNCHANGED <<stvars, prvars, clvars, csvars, pbvars, dwvars, mdvars, hovars, rsvars>>

\* process_transcription_job after the inference: create_transcript_api,
\* update_video_status_api and update_job_status_api(..., "completed"), or
\* update_job_status_api(..., "failed") in the except block.  It then
\* returns True or False, or an exception of these calls leaves it
report(w) ==
    /\ wpc[w] = "report"
    /\ \E r \in {wres[w], "failed", "raised"} :
          /\ wpc' = [wpc EXCEPT ![w] = AfterProcessor(r)]
          /\ wres' = [wres EXCEPT ![w] = r]
    /\ UNCHANGED <<running, job_queue, active_jobs, lock, wjob, apc, ajob,
                   model_lock, model_loaded, calls, dups, executions>>
    /\ UNCHANGED <<stvars, prvars, clvars, csvars, pbvars, dwvars, mdvars, hovars, rsvars>>

\* a removal that happens only after a successful run
AfterRemoval_OnSuccess(a, j, r) == IF r = "ok" THEN a \ {j} ELSE a

\* "if job_id in self.active_jobs: del self.active_jobs[job_id]", whatever
\* the outcome r of the processor was
AfterRemoval(a, j, r) == a \ {j}

\* _worker_thread: "with self.lock: del self.active_jobs[job_id]"
worker_remove(w) ==
    /\ wpc[w] = "returned"
    /\ lock = NoOwner
    /\ active_jobs' = AfterRemoval(active_jobs, wjob[w], wres[w])
    /\ wpc' = [wpc EXCEPT ![w] = "task_done"]
    /\ UNCHANGED <<running, job_queue, lock, wjob, wres, apc, ajob,
                   model_lock, model_loaded, calls, dups, executions>>
    /\ UNCHANGED <<stvars, prvars, clvars, csvars, pbvars, dwvars, mdvars, hovars, rsvars>>

\* _worker_thread: self.job_queue.task_done(), then "while self.running":
\* back into get, or the thread ends
worker_task_done(w) ==
    /\ wpc[w] = "task_done"
    /\ wpc' = [wpc EXCEPT ![w] = IF running THEN "loop" ELSE "exited"]
    /\ wjob' = [wjob EXCEPT ![w] = NoJob]
    /\ wres' = [wres EXCEPT ![w] = "none"]
    /\ UNCHANGED <<running, job_queue, active_jobs, lock, apc, ajob,
                   model_lock, model_loaded, calls, dups, executions>>
    /\ UNCHANGED <<stvars, prvars, clvars, csvars, pbvars, dwvars, mdvars, hovars, rsvars>>

NextQM ==
    \/ start
    \/ stop
    \/ \E w \in Workers : worker_exit(w)
    \/ \E c \in Callers, j \in JobIds : add_job_call(c, j)
    \/ \E c \in Callers : add_job_check(c)
    \/ \E c \in Callers : add_job_put(c)
    \/ \E c \in Callers : add_job_register(c)
    \/ \E w \in Workers : worker_get(w)
    \/ \E w \in Workers : worker_process(w)
    \/ \E w \in Workers : get_whisperx_model(w)
    \/ \E w \in Workers : load_model(w)
    \/ \E w \in Workers : inference_enter(w)
    \/ \E w \in Workers : inference_exit(w)
    \/ \E w \in Workers : report(w)
    \/ \E w \in Workers : worker_remove(w)
    \/ \E w \in Workers : worker_task_done(w)

\* ================================================================ Job Store
\* TranscriptionJob columns at INSERT
NewJob ==
    [status |-> "pending", created_at |-> now, started_at |-> Null,
     completed_at |-> Null, processing_time_seconds |-> Null, error_details |-> Null]

InitStore ==
    /\ jobs = <<>>
    /\ now = 0
    /\ retry_response = 0
    /\ ncalls = 0
    /\ ppc = [p \in Procs |-> "idle"]
    /\ pjob = [p \in Procs |-> NoJob]
    /\ events = {}

\* the wall clock moves
Tick ==
    /\ now < MaxTime
    /\ now' = now + 1
    /\ UNCHANGED <<jobs, retry_response, ncalls, ppc, pjob, events>>
    /\ UNCHANGED <<qmvars, prvars, clvars, csvars, pbvars, dwvars, mdvars, hovars, rsvars>>

\* create_transcription_job
create_transcription_job ==
    /\ Len(jobs) < MaxJobs
    /\ jobs' = Append(jobs, NewJob)
    /\ UNCHANGED <<now, retry_response, ncalls, ppc, pjob, events>>
    /\ UNCHANGED <<qmvars, prvars, clvars, csvars, pbvars, dwvars, mdvars, hovars, rsvars>>

\* upload_video: the job row is created, then the job.status.changed event
\* with status "pending" is published; a publish error is logged and the
\* upload answers all the same
upload_video ==
    /\ Len(jobs) < MaxJobs
    /\ jobs' = Append(jobs, NewJob)
    /\ \/ events' = events \cup {Len(jobs) + 1}
       \/ events' = events
    /\ UNCHANGED <<now, retry_response, ncalls, ppc, pjob>>
    /\ UNCHANGED <<qmvars, prvars, clvars, csvars, pbvars, dwvars, mdvars, hovars, rsvars>>

\* .filter(TranscriptionJob.status == "pending")
Pending == {i \in DOMAIN jobs : jobs[i].status = "pending"}

\* an ordering that puts the newest row first
OrderBy_Descending(S) ==
    {q \in [1..Cardinality(S) -> S] :
        /\ \A a, b \in DOMAIN q : a # b => q[a] # q[b]
        /\ \A a, b \in DOMAIN q : a < b => jobs[q[a]].created_at >= jobs[q[b]].created_at}

\* .order_by(TranscriptionJob.created_at): the orders the database may
\* return the rows in
OrderBy(S) ==
    {q \in [1..Cardinality(S) -> S] :
        /\ \A a, b \in DOMAIN q : a # b => q[a] # q[b]
        /\ \A a, b \in DOMAIN q : a < b => jobs[q[a]].created_at <= jobs[q[b]].created_at}

\* .first(): the results get_next_transcription_job can return
get_next_transcription_job ==
    IF Pending = {} THEN {NoJob} ELSE {q[1] : q \in OrderBy(Pending)}

\* a worker process asks GET /transcription-jobs/next
claim_call(p) ==
    /\ ppc[p] = "idle"
    /\ ncalls < MaxCalls
    /\ ncalls' = ncalls + 1
    /\ ppc' = [ppc EXCEPT ![p] = "claim_call"]
    /\ UNCHANGED <<jobs, now, retry_response, pjob, events>>
    /\ UNCHANGED <<qmvars, prvars, clvars, csvars, pbvars, dwvars, mdvars, hovars, rsvars>>

\* get_next_transcription_job_endpoint: the query runs (404 when it finds
\* nothing)
get_next_transcription_job_endpoint(p) ==
    /\ ppc[p] = "claim_call"
    /\ \E r \in get_next_transcription_job : pjob' = [pjob EXCEPT ![p] = r]
    /\ ppc' = [ppc EXCEPT ![p] = "claim_ret"]
    /\ UNCHANGED <<jobs, now, retry_response, ncalls, events>>
    /\ UNCHANGED <<qmvars, prvars, clvars, csvars, pbvars, dwvars, mdvars, hovars, rsvars>>

\* get_next_transcription_job_api returns: None ends the poll; a job is
\* handed to process_transcription_job, whose get_job_from_api returns the
\* job or raises into the except block
claim_return(p) ==
    /\ ppc[p] = "claim_ret"
    /\ IF pjob[p] = NoJob
          THEN ppc' = [ppc EXCEPT ![p] = "idle"]
          ELSE \E nxt \in {"start_call", "fail_call"} : ppc' = [ppc EXCEPT ![p] = nxt]
    /\ UNCHANGED <<jobs, now, retry_response, ncalls, pjob, events>>
    /\ UNCHANGED <<qmvars, prvars, clvars, csvars, pbvars, dwvars, mdvars, hovars, rsvars>>

\* handle_job_status_changed_event for an event with status "pending",
\* delivered to a worker process whose worker thread is free: the GET of the
\* job fails and the event is dropped, or the job is put on the queue and
\* the thread runs process_transcription_job on it (whose get_job_from_api
\* returns or raises).  The status of the fetched job is not looked at, and
\* the message is acknowledged either way.
handle_job_status_changed_event(p, j) ==
    /\ ppc[p] = "idle"
    /\ j \in events
    /\ ncalls < MaxCalls
    /\ ncalls' = ncalls + 1
    /\ events' = events \ {j}
    /\ \/ UNCHANGED <<ppc, pjob>>
       \/ /\ pjob' = [pjob EXCEPT ![p] = j]
          /\ \E nxt \in {"start_call", "fail_call"} : ppc' = [ppc EXCEPT ![p] = nxt]
    /\ UNCHANGED <<jobs, now, retry_response>>
    /\ UNCHANGED <<qmvars, prvars, clvars, csvars, pbvars, dwvars, mdvars, hovars, rsvars>>

\* mark_job_started
mark_job_started(job) ==
    [job EXCEPT !.status = "processing", !.started_at = now]

\* update_job_status_api(job_id, "processing"): start_transcription_job
\* answers, or the request fails and the worker goes on all the same
start_transcription_job(p) ==
    /\ ppc[p] = "start_call"
    /\ \/ jobs' = [jobs EXCEPT ![pjob[p]] = mark_job_started(@)]
       \/ jobs' = jobs
    /\ ppc' = [ppc EXCEPT ![p] = "inference"]
    /\ UNCHANGED <<now, retry_response, ncalls, pjob, events>>
    /\ UNCHANGED <<qmvars, prvars, clvars, csvars, pbvars, dwvars, mdvars, hovars, rsvars>>

\* the inference call returns an artifact or raises
run_inference(p) ==
    /\ ppc[p] = "inference"
    /\ \E nxt \in {"complete_call", "fail_call"} : ppc' = [ppc EXCEPT ![p] = nxt]
    /\ UNCHANGED <<jobs, now, retry_response, ncalls, pjob, events>>
    /\ UNCHANGED <<qmvars, prvars, clvars, csvars, pbvars, dwvars, mdvars, hovars, rsvars>>

\* mark_job_completed
mark_job_completed(job, processing_time) ==
    [job EXCEPT !.status = "completed", !.completed_at = now,
                !.processing_time_seconds = processing_time]

\* update_job_status_api(job_id, "completed", time.time() - start_time):
\* complete_transcription_job answers, or the request fails
complete_transcription_job(p) ==
    /\ ppc[p] = "complete_call"
    /\ \/ \E elapsed \in 0..now :
             jobs' = [jobs EXCEPT ![pjob[p]] = mark_job_completed(@, elapsed)]
       \/ jobs' = jobs
    /\ ppc' = [ppc EXCEPT ![p] = "idle"]
    /\ pjob' = [pjob EXCEPT ![p] = NoJob]
    /\ UNCHANGED <<now, retry_response, ncalls, events>>
    /\ UNCHANGED <<qmvars, prvars, clvars, csvars, pbvars, dwvars, mdvars, hovars, rsvars>>

\* the error_details payload a worker sends
ErrorPayload == 1

\* mark_job_failed
mark_job_failed(job, error_details) ==
    [job EXCEPT !.status = "failed", !.completed_at = now,
                !.error_details = error_details]

\* update_job_status_api(job_id, "failed", error_details):
\* fail_transcription_job answers, or the request fails
fail_transcription_job(p) ==
    /\ ppc[p] = "fail_call"
    /\ \/ jobs' = [jobs EXCEPT ![pjob[p]] = mark_job_failed(@, ErrorPayload)]
       \/ jobs' = jobs
    /\ ppc' = [ppc EXCEPT ![p] = "idle"]
    /\ pjob' = [pjob EXCEPT ![p] = NoJob]
    /\ UNCHANGED <<now, retry_response, ncalls, events>>
    /\ UNCHANGED <<qmvars, prvars, clvars, csvars, pbvars, dwvars, mdvars, hovars, rsvars>>

\* a reset that keeps the error
ResetForRetry_KeepError(job) ==
    [job EXCEPT !.status = "pending", !.started_at = Null, !.completed_at = Null,
                !.processing_time_seconds = Null]

\* the reset retry_transcription_job applies to a failed job
ResetForRetry(job) ==
    [job EXCEPT !.status = "pending", !.started_at = Null, !.completed_at = Null,
                !.processing_time_seconds = Null, !.error_details = Null]

\* the test "job.status != 'failed'" of retry_transcription_job
NotRetryable(job) == job.status # "failed"

\* retry_transcription_job: 404 for an unknown id, 400 unless failed
retry_transcription_job(j) ==
    /\ ncalls < MaxCalls
    /\ ncalls' = ncalls + 1
    /\ IF j \notin DOMAIN jobs
          THEN /\ retry_response' = 404
               /\ jobs' = jobs
          ELSE IF NotRetryable(jobs[j])
          THEN /\ retry_response' = 400
               /\ jobs' = jobs
          ELSE /\ retry_response' = 200
               /\ jobs' = [jobs EXCEPT ![j] = ResetForRetry(@)]
    /\ UNCHANGED <<now, ppc, pjob, events>>
    /\ UNCHANGED <<qmvars, prvars, clvars, csvars, pbvars, dwvars, mdvars, hovars, rsvars>>

NextStore ==
    \/ Tick
    \/ create_transcription_job
    \/ \E p \in Procs : claim_call(p)
    \/ \E p \in Procs : get_next_transcription_job_endpoint(p)
    \/ \E p \in Procs : claim_return(p)
    \/ \E p \in Procs : start_transcription_job(p)
    \/ \E p \in Procs : run_inference(p)
    \/ \E p \in Procs : complete_transcription_job(p)
    \/ \E p \in Procs : fail_transcription_job(p)
    \/ \E j \in 1..MaxJobs : retry_transcription_job(j)

\* the Job Store together with the event path into the worker processes
NextEvents ==
    \/ NextStore
    \/ upload_video
    \/ \E p \in Procs, j \in 1..MaxJobs : handle_job_status_changed_event(p, j)

\* ====================================================== processing functions
\* process_transcription_job, process_summarization_job and
\* process_translation_job, one attempt at a time
Kinds == {"transcription", "summarization", "translation"}

TraceBound == 1000

TraceLens == (TraceBound - 1)..MaxTrace

\* text[:n] for a text of len characters
Slice(len, n) == IF len > n THEN n ELSE len

\* error_details built by the except block: the message and the traceback,
\* which only process_transcription_job cuts
error_details(k, len) ==
    [error |-> TRUE,
     traceback |-> IF k = "transcription" THEN Slice(len, TraceBound) ELSE len]

\* error_details of the "Transcript not found" return
NotFoundDetails == [error |-> TRUE, traceback |-> Null]

NoDetails == [error |-> FALSE, traceback |-> Null]

InitProc ==
    /\ kind = "none"
    /\ step = "idle"
    /\ nstarted = 0
    /\ ncompleted = 0
    /\ nfailed = 0
    /\ raised_in = "none"
    /\ trace_len = 0
    /\ sent = NoDetails
    /\ stored = "pending"
    /\ artifact = FALSE
    /\ response = "none"
    /\ event_out = "none"
    /\ nbus = 0
    /\ returned = "none"

\* a request to the API goes through, or requests raises (no connection, a
\* timeout, raise_for_status on an error response)
Requests == {"ok", "error"}

\* connect() and publish_event go through, or one of them raises
Publishes == {"sent", "error"}

\* status of the job in the Store after a request for status s that ended
\* with r
AfterRequest(st, s, r) == IF r = "ok" THEN s ELSE st

\* a caller that repeats a status call until it goes through
AfterStatusCall_Retry(cur, next, r) == IF r = "error" THEN cur ELSE next

\* where the processing function stands after update_job_status_api
\* returned: the function catches and logs its errors and returns, and the
\* caller does not look at what it returns
AfterStatusCall(cur, next, r) == next

\* update_job_status_api(job_id, s): the request to /start, /complete or
\* /fail, then, if it went through, connect() and
\* publish_job_status_changed_event inside "try / except Exception"
update_job_status_api(s, next) ==
    \E r \in Requests, p \in Publishes :
        /\ response' = r
        /\ stored' = AfterRequest(stored, s, r)
        /\ event_out' = IF r = "ok" THEN p ELSE "none"
        /\ nbus' = IF r = "ok" /\ p = "error" THEN nbus + 1 ELSE nbus
        /\ step' = AfterStatusCall(step, next, r)

\* a create_*_api that lets the exception of the publish reach its caller
CreateReturns_NoneOnBusError(p) == IF p = "error" THEN "None" ELSE "artifact"

\* what create_transcript_api / create_summary_api / create_translation_api
\* returns once the artifact is in the Store and the publish ended with p:
\* the publish is inside "try / except Exception"
CreateReturns(p) == "artifact"

\* an exception raised in step s lands in "except Exception as e"
Raise(s) ==
    /\ step' = "except"
    /\ raised_in' = s
    /\ \E n \in TraceLens : trace_len' = n

\* the processing function of kind k is entered
process_job(k) ==
    /\ step = "idle"
    /\ kind' = k
    /\ step' = "get_job"
    /\ nstarted' = 0
    /\ ncompleted' = 0
    /\ nfailed' = 0
    /\ raised_in' = "none"
    /\ trace_len' = 0
    /\ sent' = NoDetails
    /\ stored' = "pending"
    /\ artifact' = FALSE
    /\ response' = "none"
    /\ event_out' = "none"
    /\ nbus' = 0
    /\ returned' = "none"
    /\ UNCHANGED <<qmvars, stvars, clvars, csvars, pbvars, dwvars, mdvars, hovars, rsvars>>

\* job = get_job_from_api(job_id): returns the job or raises
get_job_from_api ==
    /\ step = "get_job"
    /\ \/ /\ step' = "mark_started"
          /\ UNCHANGED <<raised_in, trace_len>>
       \/ Raise("get_job")
    /\ UNCHANGED <<kind, nstarted, ncompleted, nfailed, sent,
                   stored, artifact, response, event_out, nbus, returned>>
    /\ UNCHANGED <<qmvars, stvars, clvars, csvars, pbvars, dwvars, mdvars, hovars, rsvars>>

\* update_job_status_api(job_id, "processing"); it logs its own errors
update_job_status_processing ==
    /\ step = "mark_started"
    /\ nstarted' = nstarted + 1
    /\ update_job_status_api("processing", "read")
    /\ UNCHANGED <<kind, ncompleted, nfailed, raised_in, trace_len, sent,
                   artifact, returned>>
    /\ UNCHANGED <<qmvars, stvars, clvars, csvars, pbvars, dwvars, mdvars, hovars, rsvars>>

\* get_video_from_api and find_video_file, or get_transcript_from_api: the
\* subject is read, the read raises, or (summarization, translation) the
\* transcript comes back empty
get_subject_from_api ==
    /\ step = "read"
    /\ \/ /\ step' = "inference"
          /\ UNCHANGED <<raised_in, trace_len>>
       \/ Raise("read")
       \/ /\ kind # "transcription"
          /\ step' = "not_found"
          /\ UNCHANGED <<raised_in, trace_len>>
    /\ UNCHANGED <<kind, nstarted, ncompleted, nfailed, sent,
                   stored, artifact, response, event_out, nbus, returned>>
    /\ UNCHANGED <<qmvars, stvars, clvars, csvars, pbvars, dwvars, mdvars, hovars, rsvars>>

\* "if not transcript": update_job_status_api(job_id, "failed", ...), return
\* False
transcript_not_found ==
    /\ step = "not_found"
    /\ nfailed' = nfailed + 1
    /\ sent' = NotFoundDetails
    /\ update_job_status_api("failed", "done")
    /\ returned' = IF step' = "done" THEN "False" ELSE returned
    /\ UNCHANGED <<kind, nstarted, ncompleted, raised_in, trace_len, artifact>>
    /\ UNCHANGED <<qmvars, stvars, clvars, csvars, pbvars, dwvars, mdvars, hovars, rsvars>>

\* transcribe_with_whisperx, create_summary, translate_text: returns or raises
inference_call ==
    /\ step = "inference"
    /\ \/ /\ step' = "save"
          /\ UNCHANGED <<raised_in, trace_len>>
       \/ Raise("inference")
    /\ UNCHANGED <<kind, nstarted, ncompleted, nfailed, sent,
                   stored, artifact, response, event_out, nbus, returned>>
    /\ UNCHANGED <<qmvars, stvars, clvars, csvars, pbvars, dwvars, mdvars, hovars, rsvars>>

\* create_transcript_api / create_summary_api / create_translation_api: the
\* request fails and the caller lands in its except block, or the artifact
\* is stored and connect() and the publish that follow go through or fail
create_artifact_api ==
    /\ step = "save"
    /\ \E r \in Requests, p \in Publishes :
          /\ response' = r
          /\ artifact' = (r = "ok")
          /\ event_out' = IF r = "ok" THEN p ELSE "none"
          /\ nbus' = IF r = "ok" /\ p = "error" THEN nbus + 1 ELSE nbus
          /\ IF r = "ok" /\ CreateReturns(p) = "artifact"
                THEN /\ step' = "update_subject"
                     /\ UNCHANGED <<raised_in, trace_len>>
                ELSE Raise("save")
    /\ UNCHANGED <<kind, nstarted, ncompleted, nfailed, sent, stored, returned>>
    /\ UNCHANGED <<qmvars, stvars, clvars, csvars, pbvars, dwvars, mdvars, hovars, rsvars>>

\* update_video_status_api(video_id, "transcribed") /
\* update_transcript_status_api(transcript_id, "summarized"): goes through
\* or raises
update_subject_status_api ==
    /\ step = "update_subject"
    /\ \E r \in Requests :
          /\ response' = r
          /\ IF r = "ok"
                THEN /\ step' = "mark_completed"
                     /\ UNCHANGED <<raised_in, trace_len>>
                ELSE Raise("update_subject")
    /\ UNCHANGED <<kind, nstarted, ncompleted, nfailed, sent, stored, artifact,
                   event_out, nbus, returned>>
    /\ UNCHANGED <<qmvars, stvars, clvars, csvars, pbvars, dwvars, mdvars, hovars, rsvars>>

\* update_job_status_api(job_id, "completed", processing_time), return True
update_job_status_completed ==
    /\ step = "mark_completed"
    /\ ncompleted' = ncompleted + 1
    /\ update_job_status_api("completed", "done")
    /\ returned' = IF step' = "done" THEN "True" ELSE returned
    /\ UNCHANGED <<kind, nstarted, nfailed, raised_in, trace_len, sent, artifact>>
    /\ UNCHANGED <<qmvars, stvars, clvars, csvars, pbvars, dwvars, mdvars, hovars, rsvars>>

\* the except block: update_job_status_api(job_id, "failed", error_details),
\* return False
update_job_status_failed ==
    /\ step = "except"
    /\ nfailed' = nfailed + 1
    /\ sent' = error_details(kind, trace_len)
    /\ update_job_status_api("failed", "done")
    /\ returned' = IF step' = "done" THEN "False" ELSE returned
    /\ UNCHANGED <<kind, nstarted, ncompleted, raised_in, trace_len, artifact>>
    /\ UNCHANGED <<qmvars, stvars, clvars, csvars, pbvars, dwvars, mdvars, hovars, rsvars>>

\* the function has returned
process_return ==
    /\ step = "done"
    /\ step' = "idle"
    /\ UNCHANGED <<kind, nstarted, ncompleted, nfailed, raised_in, trace_len, sent,
                   stored, artifact, response, event_out, nbus, returned>>
    /\ UNCHANGED <<qmvars, stvars, clvars, csvars, pbvars, dwvars, mdvars, hovars, rsvars>>

NextProc ==
    \/ \E k \in Kinds : process_job(k)
    \/ get_job_from_api
    \/ update_job_status_processing
    \/ get_subject_from_api
    \/ transcript_not_found
    \/ inference_call
    \/ create_artifact_api
    \/ update_subject_status_api
    \/ update_job_status_completed
    \/ update_job_status_failed
    \/ process_return

\* ============================================================ RabbitMQClient
max_retries == 3

retry_delay == 5

\* the calls of one connection attempt that can raise
ConnectCalls == {"BlockingConnection", "channel", "exchange_declare"}

\* the exception a failing call raises: opening the connection fails with a
\* connection error of pika, the channel calls with a channel error
ExcOf(f) == IF f = "BlockingConnection" THEN "AMQPConnectionError" ELSE "AMQPChannelError"

NoExc == "none"

InitClient ==
    /\ connection = "none"
    /\ channel = "none"
    /\ cpc = "idle"
    /\ attempt = 0
    /\ nattempts = 0
    /\ slept = 0
    /\ last_op = "none"
    /\ raised = NoExc
    /\ close_err = FALSE

\* a connect() that always dials
IsOpen_Never(c) == FALSE

\* "self.connection is not None and self.connection.is_open"
IsOpen(c) == c = "open"

\* connect(), entry: returns at once on an open connection, otherwise enters
\* "for attempt in range(self.max_retries)"
connect ==
    /\ cpc = "idle"
    /\ pubpc = "idle"
    /\ attempt' = 0
    /\ nattempts' = 0
    /\ slept' = 0
    /\ raised' = NoExc
    /\ IF IsOpen(connection)
          THEN /\ cpc' = "idle"
               /\ last_op' = "connect_noop"
          ELSE /\ cpc' = "attempt"
               /\ last_op' = "connecting"
    /\ UNCHANGED <<connection, channel, close_err>>
    /\ UNCHANGED <<qmvars, stvars, prvars, csvars, pbvars, dwvars, mdvars, hovars, rsvars>>

\* _ensure_connection(): calls connect() unless the connection is open, then
\* asserts that connection and channel are set
ensure_connection ==
    /\ cpc = "idle"
    /\ pubpc = "idle"
    /\ IF IsOpen(connection)
          THEN /\ last_op' = IF channel = "none" THEN "ensure_assert_failed" ELSE "ensure_ok"
               /\ UNCHANGED <<cpc, attempt, nattempts, slept, raised>>
          ELSE /\ cpc' = "attempt"
               /\ last_op' = "connecting"
               /\ attempt' = 0
               /\ nattempts' = 0
               /\ slept' = 0
               /\ raised' = NoExc
    /\ UNCHANGED <<connection, channel, close_err>>
    /\ UNCHANGED <<qmvars, stvars, prvars, csvars, pbvars, dwvars, mdvars, hovars, rsvars>>

\* one pass of the loop body: BlockingConnection, channel() and
\* exchange_declare in turn.  All three succeed and connect() returns, or
\* call f raises after the assignments before it were made; the except
\* clause then sleeps, or on the last attempt re-raises what it caught
connect_attempt ==
    /\ cpc = "attempt"
    /\ nattempts' = nattempts + 1
    /\ \/ /\ connection' = "open"
          /\ channel' = "set"
          /\ cpc' = "idle"
          /\ last_op' = "connect_returned"
          /\ raised' = raised
       \/ \E f \in ConnectCalls :
             /\ connection' = IF f = "BlockingConnection" THEN connection ELSE "open"
             /\ channel' = IF f = "exchange_declare" THEN "set" ELSE channel
             /\ IF attempt < max_retries - 1
                   THEN /\ cpc' = "sleep"
                        /\ last_op' = last_op
                        /\ raised' = raised
                   ELSE /\ cpc' = "idle"
                        /\ last_op' = "connect_raised"
                        /\ raised' = ExcOf(f)
    /\ UNCHANGED <<attempt, slept, close_err>>
    /\ UNCHANGED <<qmvars, stvars, prvars, csvars, pbvars, dwvars, mdvars, hovars, rsvars>>

\* time.sleep(self.retry_delay), then the next pass
connect_sleep ==
    /\ cpc = "sleep"
    /\ slept' = slept + retry_delay
    /\ attempt' = attempt + 1
    /\ cpc' = "attempt"
    /\ UNCHANGED <<connection, channel, nattempts, last_op, raised, close_err>>
    /\ UNCHANGED <<qmvars, stvars, prvars, csvars, pbvars, dwvars, mdvars, hovars, rsvars>>

\* a close() without its finally clause
AfterClose_NoFinally(v, failed) == IF failed THEN v ELSE "none"

\* close(): "finally: self.connection = None; self.channel = None"
AfterClose(v, failed) == "none"

\* close(): "except Exception" logs whatever connection.close() raised
CloseOutcome(failed) == "close_returned"

\* close(): connection.close() is called on an open connection and may raise
close ==
    /\ cpc = "idle"
    /\ pubpc = "idle"
    /\ \E failed \in (IF IsOpen(connection) THEN BOOLEAN ELSE {FALSE}) :
          /\ close_err' = failed
          /\ connection' = AfterClose(connection, failed)
          /\ channel' = AfterClose(channel, failed)
          /\ last_op' = CloseOutcome(failed)
    /\ UNCHANGED <<cpc, attempt, nattempts, slept, raised>>
    /\ UNCHANGED <<qmvars, stvars, prvars, csvars, pbvars, dwvars, mdvars, hovars, rsvars>>

\* the broker or the network ends the connection, at any moment: is_open
\* becomes False
connection_lost ==
    /\ connection = "open"
    /\ connection' = "closed"
    /\ UNCHANGED <<channel, cpc, attempt, nattempts, slept, last_op, raised, close_err>>
    /\ UNCHANGED <<qmvars, stvars, prvars, csvars, pbvars, dwvars, mdvars, hovars, rsvars>>

NextClient ==
    \/ connect
    \/ ensure_connection
    \/ connect_attempt
    \/ connect_sleep
    \/ close
    \/ connection_lost

\* ================================================ RabbitMQClient.publish_event
MaxPublishes == 2

\* "if len(message) > 100000"
SizeBound == 100000

\* "[:1000]"
TracePrefix == 1000

\* len("... (truncated)")
MarkerLen == 15

Min(a, b) == IF a < b THEN a ELSE b

\* lengths of payload["traceback"]; Null: the dict has no such key
TraceSizes == {Null, TracePrefix - MarkerLen, TracePrefix, 2 * SizeBound}

\* lengths of payload["error_details"]["traceback"]; Null: no such key, or
\* error_details is not a dict
DetailSizes == {Null, 2 * SizeBound}

\* what json.dumps writes for the rest of the dict: keys, punctuation and
\* every other field
RestSizes == {TracePrefix, SizeBound + 1}

\* the dicts handed to publish_event.  The strings are of characters that
\* json.dumps writes as they are; marked: a trace string ends with the marker
Payloads ==
    [traceback : TraceSizes, details : DetailSizes, rest : RestSizes, marked : {FALSE}]

FieldLen(n) == IF n = Null THEN 0 ELSE n

\* len(json.dumps(payload))
Dumps(p) == p.rest + FieldLen(p.traceback) + FieldLen(p.details)

\* s[:1000] + "... (truncated)" on a string of length n that is there
Cut(n) == IF n = Null THEN Null ELSE Min(n, TracePrefix) + MarkerLen

\* the dict after "if len(message) > 100000: ...": both trace strings are
\* replaced in place, nothing else is touched and the length is not tested
\* again
Truncated(p) ==
    IF Dumps(p) > SizeBound
       THEN [p EXCEPT !.traceback = Cut(@),
                      !.details = Cut(@),
                      !.marked = @ \/ p.traceback # Null \/ p.details # Null]
       ELSE p

InitPublish ==
    /\ pubpc = "idle"
    /\ pattempt = 0
    /\ npasses = 0
    /\ pub_out = "none"
    /\ payload = [traceback |-> Null, details |-> Null, rest |-> TracePrefix, marked |-> FALSE]
    /\ npubs = 0
    /\ body = Null
    /\ body_marked = FALSE
    /\ first_body = Null

\* publish_event(event_type, payload), entry: with a new dict, or with the
\* dict of the call before, as publish_event left it
publish_event_call ==
    /\ pubpc = "idle"
    /\ cpc = "idle"
    /\ \/ \E p \in Payloads :
             /\ payload' = p
             /\ npubs' = 1
             /\ first_body' = Null
       \/ /\ npubs \in 1..(MaxPublishes - 1)
          /\ npubs' = npubs + 1
          /\ UNCHANGED <<payload, first_body>>
    /\ pubpc' = "ensure"
    /\ pattempt' = 0
    /\ npasses' = 0
    /\ pub_out' = "running"
    /\ body' = Null
    /\ body_marked' = FALSE
    /\ UNCHANGED <<qmvars, stvars, prvars, clvars, csvars, dwvars, mdvars, hovars, rsvars>>

\* a pass of the loop body begins: self._ensure_connection() returns at once,
\* fails its assert on a client without channel, or calls connect()
publish_ensure_connection ==
    /\ pubpc = "ensure"
    /\ cpc = "idle"
    /\ npasses' = npasses + 1
    /\ IF IsOpen(connection)
          THEN /\ pubpc' = IF channel = "none" THEN "caught" ELSE "send"
               /\ last_op' = IF channel = "none" THEN "ensure_assert_failed" ELSE "ensure_ok"
               /\ UNCHANGED <<cpc, attempt, nattempts, slept, raised>>
          ELSE /\ pubpc' = "connecting"
               /\ cpc' = "attempt"
               /\ last_op' = "connecting"
               /\ attempt' = 0
               /\ nattempts' = 0
               /\ slept' = 0
               /\ raised' = NoExc
    /\ UNCHANGED <<connection, channel, close_err>>
    /\ UNCHANGED <<pattempt, pub_out, payload, npubs, body, body_marked, first_body>>
    /\ UNCHANGED <<qmvars, stvars, prvars, csvars, dwvars, mdvars, hovars, rsvars>>

\* the connect() called by _ensure_connection has ended: what it raised
\* reaches the except clause of publish_event, otherwise the pass goes on
publish_connected ==
    /\ pubpc = "connecting"
    /\ cpc = "idle"
    /\ pubpc' = IF last_op = "connect_raised" THEN "caught" ELSE "send"
    /\ UNCHANGED <<pattempt, npasses, pub_out, payload, npubs, body, body_marked, first_body>>
    /\ UNCHANGED <<qmvars, stvars, prvars, clvars, csvars, dwvars, mdvars, hovars, rsvars>>

\* json.dumps, the truncation of an oversized dict and channel.basic_publish:
\* the message goes out on an open connection and publish_event returns, or
\* basic_publish raises
basic_publish ==
    /\ pubpc = "send"
    /\ payload' = Truncated(payload)
    /\ \/ /\ connection = "open"
          /\ body' = Dumps(payload')
          /\ body_marked' = payload'.marked
          /\ first_body' = IF first_body = Null THEN body' ELSE first_body
          /\ pubpc' = "idle"
          /\ pub_out' = "returned"
       \/ /\ pubpc' = "caught"
          /\ UNCHANGED <<body, body_marked, first_body, pub_out>>
    /\ UNCHANGED <<pattempt, npasses, npubs>>
    /\ UNCHANGED <<qmvars, stvars, prvars, clvars, csvars, dwvars, mdvars, hovars, rsvars>>

\* an except clause that does not call self.close()
ForceClose_Skipped(v, failed) == v

\* "self.close()  # Force reconnection on next attempt"
ForceClose(v, failed) == AfterClose(v, failed)

\* "except Exception": close(), then sleep before the next pass or, after
\* the last pass, re-raise
publish_except ==
    /\ pubpc = "caught"
    /\ \E failed \in (IF IsOpen(connection) THEN BOOLEAN ELSE {FALSE}) :
          /\ close_err' = failed
          /\ connection' = ForceClose(connection, failed)
          /\ channel' = ForceClose(channel, failed)
          /\ last_op' = CloseOutcome(failed)
    /\ IF pattempt < max_retries - 1
          THEN /\ pubpc' = "sleep"
               /\ pub_out' = pub_out
          ELSE /\ pubpc' = "idle"
               /\ pub_out' = "raised"
    /\ UNCHANGED <<cpc, attempt, nattempts, slept, raised>>
    /\ UNCHANGED <<pattempt, npasses, payload, npubs, body, body_marked, first_body>>
    /\ UNCHANGED <<qmvars, stvars, prvars, csvars, dwvars, mdvars, hovars, rsvars>>

\* time.sleep(self.retry_delay), then the next pass
publish_sleep ==
    /\ pubpc = "sleep"
    /\ pattempt' = pattempt + 1
    /\ pubpc' = "ensure"
    /\ UNCHANGED <<npasses, pub_out, payload, npubs, body, body_marked, first_body>>
    /\ UNCHANGED <<qmvars, stvars, prvars, clvars, csvars, dwvars, mdvars, hovars, rsvars>>

NextPublish ==
    \/ publish_event_call
    \/ publish_ensure_connection
    \/ publish_connected
    \/ basic_publish
    \/ publish_except
    \/ publish_sleep
    \/ connect_attempt
    \/ connect_sleep
    \/ connection_lost

\* ============================================== subscription, message_handler
Bodies == {"invalid_json", "missing_fields", "well_formed"}

\* the callbacks handed to subscribe_to_event: the event handlers of the
\* services, which catch every exception themselves, or any other callable
Handlers == {"service", "other"}

NoBody == "none"

InitConsumer ==
    /\ inbox = <<>>
    /\ mpc = "unsubscribed"
    /\ mbody = NoBody
    /\ handler = "none"
    /\ cb_out = "none"
    /\ delivered = 0
    /\ acked = 0
    /\ nacked = 0

\* subscribe_to_event(event_type, callback, queue_name): message_handler is
\* installed with basic_consume, prefetch_count = 1
subscribe_to_event(h) ==
    /\ mpc = "unsubscribed"
    /\ handler' = h
    /\ mpc' = "idle"
    /\ UNCHANGED <<inbox, mbody, cb_out, delivered, acked, nacked>>
    /\ UNCHANGED <<qmvars, stvars, prvars, clvars, pbvars, dwvars, mdvars, hovars, rsvars>>

\* a publisher puts a message with body b on the exchange; the queue is
\* durable and keeps it
publish_event(b) ==
    /\ Len(inbox) < MaxMsgs
    /\ inbox' = Append(inbox, b)
    /\ UNCHANGED <<mpc, mbody, handler, cb_out, delivered, acked, nacked>>
    /\ UNCHANGED <<qmvars, stvars, prvars, clvars, pbvars, dwvars, mdvars, hovars, rsvars>>

\* the broker delivers the head of the queue: message_handler is called
deliver ==
    /\ mpc = "idle"
    /\ inbox # <<>>
    /\ delivered < MaxDeliveries
    /\ mbody' = Head(inbox)
    /\ inbox' = Tail(inbox)
    /\ delivered' = delivered + 1
    /\ cb_out' = "none"
    /\ mpc' = "json_loads"
    /\ UNCHANGED <<handler, acked, nacked>>
    /\ UNCHANGED <<qmvars, stvars, prvars, clvars, pbvars, dwvars, mdvars, hovars, rsvars>>

\* message = json.loads(body): raises on a body that is not JSON
json_loads ==
    /\ mpc = "json_loads"
    /\ mpc' = IF mbody = "invalid_json" THEN "basic_nack" ELSE "callback"
    /\ UNCHANGED <<inbox, mbody, handler, cb_out, delivered, acked, nacked>>
    /\ UNCHANGED <<qmvars, stvars, prvars, clvars, pbvars, dwvars, mdvars, hovars, rsvars>>

\* how callback(message) can end: handle_video_created_event and
\* handle_job_status_changed_event log missing fields and return, and catch
\* every exception of their body; another callable may raise
CallbackOutcomes(h, b) ==
    IF h = "service" THEN {"returned"} ELSE {"returned", "raised"}

\* a handler that acknowledges whatever the callback did
AfterCallback_AlwaysAck(out) == "basic_ack"

\* message_handler: after a callback that returned comes ch.basic_ack, an
\* exception goes to the except clause and its ch.basic_nack
AfterCallback(out) == IF out = "returned" THEN "basic_ack" ELSE "basic_nack"

\* callback(message)
callback ==
    /\ mpc = "callback"
    /\ \E out \in CallbackOutcomes(handler, mbody) :
          /\ cb_out' = out
          /\ mpc' = AfterCallback(out)
    /\ UNCHANGED <<inbox, mbody, handler, delivered, acked, nacked>>
    /\ UNCHANGED <<qmvars, stvars, prvars, clvars, pbvars, dwvars, mdvars, hovars, rsvars>>

\* ch.basic_ack(delivery_tag=method.delivery_tag): the channel is open and
\* the broker drops the message
basic_ack ==
    /\ mpc = "basic_ack"
    /\ acked' = acked + 1
    /\ mpc' = "idle"
    /\ UNCHANGED <<inbox, mbody, handler, cb_out, delivered, nacked>>
    /\ UNCHANGED <<qmvars, stvars, prvars, clvars, pbvars, dwvars, mdvars, hovars, rsvars>>

\* ch.basic_nack(delivery_tag=method.delivery_tag, requeue=True): the broker
\* puts the message back at the head of the queue
basic_nack ==
    /\ mpc = "basic_nack"
    /\ nacked' = nacked + 1
    /\ inbox' = <<mbody>> \o inbox
    /\ mpc' = "idle"
    /\ UNCHANGED <<mbody, handler, cb_out, delivered, acked>>
    /\ UNCHANGED <<qmvars, stvars, prvars, clvars, pbvars, dwvars, mdvars, hovars, rsvars>>

NextConsumer ==
    \/ \E h \in Handlers : subscribe_to_event(h)
    \/ \E b \in Bodies : publish_event(b)
    \/ deliver
    \/ json_loads
    \/ callback
    \/ basic_ack
    \/ basic_nack

\* ====================================================== main modules, run_*
MaxBacklog == 2

MaxEvents == 2

MaxPolls == 3

\* the subscribe_to_event calls of a run
NumSubscriptions == 2

\* --mode of a service: translation and summarization_service have run_worker
\* only, transcription-service and summarization-service take "poll" too
ModesOf(s) == IF s = "translation" THEN {"event"} ELSE {"event", "poll"}

EventStatuses == {"pending", "processing", "completed", "failed"}

\* job.status.changed payloads; complete: job_type, job_id and status are
\* all there
Events == [job_type : Kinds, status : EventStatuses, complete : BOOLEAN]

NoEvent == [job_type |-> "none", status |-> "none", complete |-> FALSE]

InitMain ==
    /\ svc = "none"
    /\ mode = "none"
    /\ mpos = "not_started"
    /\ ended_by = "none"
    /\ nsubs = 0
    /\ backlog = 0
    /\ nstore = 0
    /\ nmain = 0
    /\ ninline = 0
    /\ nevents = 0
    /\ last_event = NoEvent
    /\ npolls = 0
    /\ last_poll = "none"

\* "if __name__ == '__main__'": the main module of service s is started in
\* mode m, with b jobs of its kind pending in the Store.  transcription
\* builds its queue manager first, the others connect or start polling
run_worker(s, m, b) ==
    /\ mpos = "not_started"
    /\ cpc = "idle"
    /\ pubpc = "idle"
    /\ svc' = s
    /\ mode' = m
    /\ backlog' = b
    /\ mpos' = IF s = "transcription" THEN "queue_manager"
               ELSE IF m = "event" THEN "connect" ELSE "poll"
    /\ UNCHANGED <<ended_by, nsubs, nstore, nmain, ninline, nevents, last_event,
                   npolls, last_poll>>
    /\ UNCHANGED <<qmvars, stvars, prvars, clvars, csvars, pbvars, mdvars, hovars, rsvars>>

\* "TranscriptionQueueManager(max_workers=max_workers,
\* poll_interval=poll_interval)": __init__ takes max_workers only, the call
\* raises TypeError.  "except Exception" finds queue_manager None, closes the
\* client in event mode, and the function returns
queue_manager_init ==
    /\ mpos = "queue_manager"
    /\ mpos' = "exited"
    /\ ended_by' = "TypeError"
    /\ IF mode = "event"
          THEN /\ connection' = AfterClose(connection, FALSE)
               /\ channel' = AfterClose(channel, FALSE)
               /\ last_op' = CloseOutcome(FALSE)
               /\ close_err' = FALSE
          ELSE UNCHANGED <<connection, channel, last_op, close_err>>
    /\ UNCHANGED <<cpc, attempt, nattempts, slept, raised>>
    /\ UNCHANGED <<svc, mode, nsubs, backlog, nstore, nmain, ninline, nevents,
                   last_event, npolls, last_poll>>
    /\ UNCHANGED <<qmvars, stvars, prvars, csvars, pbvars, mdvars, hovars, rsvars>>

\* "rabbitmq_client.connect()"
main_connect ==
    /\ mpos = "connect"
    /\ cpc = "idle"
    /\ mpos' = "connecting"
    /\ attempt' = 0
    /\ nattempts' = 0
    /\ slept' = 0
    /\ raised' = NoExc
    /\ IF IsOpen(connection)
          THEN /\ cpc' = "idle"
               /\ last_op' = "connect_noop"
          ELSE /\ cpc' = "attempt"
               /\ last_op' = "connecting"
    /\ UNCHANGED <<connection, channel, close_err>>
    /\ UNCHANGED <<svc, mode, ended_by, nsubs, backlog, nstore, nmain, ninline,
                   nevents, last_event, npolls, last_poll>>
    /\ UNCHANGED <<qmvars, stvars, prvars, csvars, pbvars, mdvars, hovars, rsvars>>

\* connect() has ended.  What it raised reaches "except Exception" of the
\* run function: the client is closed and the function returns
main_connected ==
    /\ mpos = "connecting"
    /\ cpc = "idle"
    /\ IF last_op = "connect_raised"
          THEN /\ mpos' = "exited"
               /\ ended_by' = "connect_raised"
               /\ \E failed \in (IF IsOpen(connection) THEN BOOLEAN ELSE {FALSE}) :
                     /\ close_err' = failed
                     /\ connection' = AfterClose(connection, failed)
                     /\ channel' = AfterClose(channel, failed)
                     /\ last_op' = CloseOutcome(failed)
          ELSE /\ mpos' = "subscribe"
               /\ UNCHANGED <<ended_by, connection, channel, last_op, close_err>>
    /\ UNCHANGED <<cpc, attempt, nattempts, slept, raised>>
    /\ UNCHANGED <<svc, mode, nsubs, backlog, nstore, nmain, ninline, nevents,
                   last_event, npolls, last_poll>>
    /\ UNCHANGED <<qmvars, stvars, prvars, csvars, pbvars, mdvars, hovars, rsvars>>

\* "rabbitmq_client.subscribe_to_event(...)", twice: the call returns, or it
\* raises and "except Exception" closes the client
main_subscribe ==
    /\ mpos = "subscribe"
    /\ \/ /\ nsubs' = nsubs + 1
          /\ mpos' = IF nsubs + 1 = NumSubscriptions THEN "initial_poll" ELSE "subscribe"
          /\ UNCHANGED <<ended_by, connection, channel, last_op, close_err>>
       \/ /\ mpos' = "exited"
          /\ ended_by' = "error"
          /\ nsubs' = nsubs
          /\ \E failed \in (IF IsOpen(connection) THEN BOOLEAN ELSE {FALSE}) :
                /\ close_err' = failed
                /\ connection' = AfterClose(connection, failed)
                /\ channel' = AfterClose(channel, failed)
                /\ last_op' = CloseOutcome(failed)
    /\ UNCHANGED <<cpc, attempt, nattempts, slept, raised>>
    /\ UNCHANGED <<svc, mode, backlog, nstore, nmain, ninline, nevents, last_event,
                   npolls, last_poll>>
    /\ UNCHANGED <<qmvars, stvars, prvars, csvars, pbvars, mdvars, hovars, rsvars>>

\* "Process any existing pending jobs": one get_next_*_job_api call; a job
\* it returns is processed by the main thread.  Then start_consuming()
initial_poll ==
    /\ mpos = "initial_poll"
    /\ nstore' = nstore + 1
    /\ \E found \in (IF backlog > 0 THEN BOOLEAN ELSE {FALSE}) :
          /\ nmain' = IF found THEN nmain + 1 ELSE nmain
          /\ backlog' = IF found THEN backlog - 1 ELSE backlog
    /\ mpos' = "consuming"
    /\ UNCHANGED <<svc, mode, ended_by, nsubs, ninline, nevents, last_event,
                   npolls, last_poll>>
    /\ UNCHANGED <<qmvars, stvars, prvars, clvars, csvars, pbvars, mdvars, hovars, rsvars>>

\* a handler that tests the job type only
Ignored_KindOnly(s, e) == ~e.complete \/ e.job_type # s

\* handle_job_status_changed_event returns before it does anything: a field
\* is missing, the job type is not the service's, or the status is not
\* "pending"
Ignored(s, e) == ~e.complete \/ e.job_type # s \/ e.status # "pending"

\* message_handler calls handle_job_status_changed_event(e) on the thread
\* that runs start_consuming().  The handlers of summarization and
\* translation call the processing function themselves; transcription, whose
\* handler calls queue_manager.add_job, does not get as far as consuming
handle_job_status_changed(e) ==
    /\ mpos = "consuming"
    /\ nevents < MaxEvents
    /\ nevents' = nevents + 1
    /\ last_event' = e
    /\ IF Ignored(svc, e)
          THEN UNCHANGED <<nstore, ninline, backlog>>
          ELSE /\ nstore' = nstore + 1
               /\ ninline' = ninline + 1
               /\ \E taken \in (IF backlog > 0 THEN BOOLEAN ELSE {FALSE}) :
                     backlog' = IF taken THEN backlog - 1 ELSE backlog
    /\ UNCHANGED <<svc, mode, mpos, ended_by, nsubs, nmain, npolls, last_poll>>
    /\ UNCHANGED <<qmvars, stvars, prvars, clvars, csvars, pbvars, mdvars, hovars, rsvars>>

\* Ctrl-C in the main thread.  Inside channel.start_consuming() it is caught
\* by RabbitMQClient.start_consuming, which calls stop_consuming() and
\* returns, and the run function ends.  Before that "except
\* KeyboardInterrupt" of the run function calls stop_consuming() and close().
\* run_polling_worker of summarization does not catch it
keyboard_interrupt ==
    /\ mpos \in {"subscribe", "initial_poll", "consuming", "poll", "poll_sleep"}
    /\ mpos' = "exited"
    /\ ended_by' = IF mpos = "consuming" THEN "interrupt_in_consume"
                   ELSE IF mode = "poll" THEN "interrupt_in_poll"
                   ELSE "interrupt_before_consume"
    /\ IF mpos \in {"subscribe", "initial_poll"}
          THEN \E failed \in (IF IsOpen(connection) THEN BOOLEAN ELSE {FALSE}) :
                  /\ close_err' = failed
                  /\ connection' = AfterClose(connection, failed)
                  /\ channel' = AfterClose(channel, failed)
                  /\ last_op' = CloseOutcome(failed)
          ELSE UNCHANGED <<connection, channel, last_op, close_err>>
    /\ UNCHANGED <<cpc, attempt, nattempts, slept, raised>>
    /\ UNCHANGED <<svc, mode, nsubs, backlog, nstore, nmain, ninline, nevents,
                   last_event, npolls, last_poll>>
    /\ UNCHANGED <<qmvars, stvars, prvars, csvars, pbvars, mdvars, hovars, rsvars>>

\* stop_consuming() while the consume loop runs: channel.stop_consuming()
\* makes channel.start_consuming() return, start_consuming() returns and the
\* run function ends
stop_consuming ==
    /\ mpos = "consuming"
    /\ mpos' = "exited"
    /\ ended_by' = "stop_consuming"
    /\ UNCHANGED <<svc, mode, nsubs, backlog, nstore, nmain, ninline, nevents,
                   last_event, npolls, last_poll>>
    /\ UNCHANGED <<qmvars, stvars, prvars, clvars, csvars, pbvars, mdvars, hovars, rsvars>>

\* channel.start_consuming() raises, as it does when the connection is lost:
\* start_consuming() calls stop_consuming() and re-raises, "except Exception"
\* of the run function closes the client
consume_error ==
    /\ mpos = "consuming"
    /\ mpos' = "exited"
    /\ ended_by' = "error"
    /\ \E failed \in BOOLEAN :
          /\ close_err' = failed
          /\ connection' = AfterClose(connection, failed)
          /\ channel' = AfterClose(channel, failed)
          /\ last_op' = CloseOutcome(failed)
    /\ UNCHANGED <<cpc, attempt, nattempts, slept, raised>>
    /\ UNCHANGED <<svc, mode, nsubs, backlog, nstore, nmain, ninline, nevents,
                   last_event, npolls, last_poll>>
    /\ UNCHANGED <<qmvars, stvars, prvars, csvars, pbvars, mdvars, hovars, rsvars>>

\* run_polling_worker of summarization, one pass of "while True" up to the
\* sleep: get_next_summarization_job_api(), and the job it returns is
\* processed at once
poll ==
    /\ mpos = "poll"
    /\ npolls < MaxPolls
    /\ npolls' = npolls + 1
    /\ nstore' = nstore + 1
    /\ \E found \in (IF backlog > 0 THEN BOOLEAN ELSE {FALSE}) :
          /\ last_poll' = IF found THEN "job" ELSE "empty"
          /\ nmain' = IF found THEN nmain + 1 ELSE nmain
          /\ backlog' = IF found THEN backlog - 1 ELSE backlog
    /\ mpos' = "poll_sleep"
    /\ UNCHANGED <<svc, mode, ended_by, nsubs, ninline, nevents, last_event>>
    /\ UNCHANGED <<qmvars, stvars, prvars, clvars, csvars, pbvars, mdvars, hovars, rsvars>>

\* "time.sleep(poll_interval)", then the next pass
poll_sleep ==
    /\ mpos = "poll_sleep"
    /\ mpos' = "poll"
    /\ UNCHANGED <<svc, mode, ended_by, nsubs, backlog, nstore, nmain, ninline,
                   nevents, last_event, npolls, last_poll>>
    /\ UNCHANGED <<qmvars, stvars, prvars, clvars, csvars, pbvars, mdvars, hovars, rsvars>>

NextMain ==
    \/ \E s \in Kinds : \E m \in ModesOf(s) : \E b \in 0..MaxBacklog : run_worker(s, m, b)
    \/ queue_manager_init
    \/ main_connect
    \/ main_connected
    \/ main_subscribe
    \/ initial_poll
    \/ \E e \in Events : handle_job_status_changed(e)
    \/ keyboard_interrupt
    \/ stop_consuming
    \/ consume_error
    \/ poll
    \/ poll_sleep
    \/ connect_attempt
    \/ connect_sleep

\* ======================================================= the WhisperX model
\* the two transcription_worker modules under src/services
Modules == {"transcription-service", "transcription_service"}

\* the functions of module m that hand out the model
Getters(m) ==
    IF m = "transcription-service"
       THEN {"get_whisperx_model"}
       ELSE {"get_whisperx_model", "get_whisperx_model_for_file"}

NoModel == 0          \* _model = None
Raised  == -1         \* the request ended with an exception

InitModel ==
    /\ tmodule = "none"
    /\ model = NoModel
    /\ nloads = 0
    /\ tpc = [w \in Workers |-> "idle"]
    /\ tfn = [w \in Workers |-> "none"]
    /\ got = [w \in Workers |-> NoModel]
    /\ nrequests = 0

\* the worker process imports its transcription_worker module: _model = None,
\* _model_lock = threading.Lock()
import_module(m) ==
    /\ tmodule = "none"
    /\ tmodule' = m
    /\ UNCHANGED <<model, nloads, tpc, tfn, got, nrequests>>
    /\ UNCHANGED <<qmvars, stvars, prvars, clvars, csvars, pbvars, dwvars, hovars, rsvars>>

\* transcribe_with_whisperx asks for the model: get_whisperx_model() in
\* transcription-service, get_whisperx_model_for_file(filepath) in
\* transcription_service, whose get_whisperx_model is there for any caller
request_model(w, f) ==
    /\ tmodule # "none"
    /\ tpc[w] = "idle"
    /\ f \in Getters(tmodule)
    /\ nrequests < MaxRequests
    /\ nrequests' = nrequests + 1
    /\ tpc' = [tpc EXCEPT ![w] = "lock"]
    /\ tfn' = [tfn EXCEPT ![w] = f]
    /\ UNCHANGED <<tmodule, model, nloads, got>>
    /\ UNCHANGED <<qmvars, stvars, prvars, clvars, csvars, pbvars, dwvars, hovars, rsvars>>

\* "with _model_lock" of the getter is entered
getter_enter(w) ==
    /\ tpc[w] = "lock"
    /\ CanAcquire(model_lock)
    /\ model_lock' = w
    /\ tpc' = [tpc EXCEPT ![w] = "with"]
    /\ UNCHANGED <<running, job_queue, active_jobs, lock, wpc, wjob, wres, apc, ajob,
                   model_loaded, calls, dups, executions>>
    /\ UNCHANGED <<tmodule, model, nloads, tfn, got, nrequests>>
    /\ UNCHANGED <<stvars, prvars, clvars, csvars, pbvars, dwvars, hovars, rsvars>>

\* the test that guards the loading: "if not _model_loaded" in
\* transcription-service, "if _model is None" in get_whisperx_model of
\* transcription_service, none in get_whisperx_model_for_file
MustLoad(m, f) ==
    CASE f = "get_whisperx_model_for_file" -> TRUE
      [] m = "transcription-service" -> ~model_loaded
      [] OTHER -> model = NoModel

\* the body of the getter: a model that is there is returned, or
\* whisperx.load_model is tried down the list of model sizes; one of them
\* loads, or the last error leaves the getter.  The lock is released
getter_body(w) ==
    /\ tpc[w] = "with"
    /\ model_lock' = AfterWith(model_lock)
    /\ tpc' = [tpc EXCEPT ![w] = "idle"]
    /\ IF MustLoad(tmodule, tfn[w])
          THEN \/ /\ nloads' = nloads + 1
                  /\ model' = nloads + 1
                  /\ model_loaded' = (model_loaded \/ tmodule = "transcription-service")
                  /\ got' = [got EXCEPT ![w] = nloads + 1]
               \/ /\ got' = [got EXCEPT ![w] = Raised]
                  /\ UNCHANGED <<nloads, model, model_loaded>>
          ELSE /\ got' = [got EXCEPT ![w] = model]
               /\ UNCHANGED <<nloads, model, model_loaded>>
    /\ UNCHANGED <<running, job_queue, active_jobs, lock, wpc, wjob, wres, apc, ajob,
                   calls, dups, executions>>
    /\ UNCHANGED <<tmodule, tfn, nrequests>>
    /\ UNCHANGED <<stvars, prvars, clvars, csvars, pbvars, dwvars, hovars, rsvars>>

NextModel ==
    \/ \E m \in Modules : import_module(m)
    \/ \E w \in Workers, f \in {"get_whisperx_model", "get_whisperx_model_for_file"} :
          request_model(w, f)
    \/ \E w \in Workers : getter_enter(w)
    \/ \E w \in Workers : getter_body(w)

\* ================================== transcription service, event mode: jobs
\* the queue_manager module under src, whose constructor takes max_workers
\* only, and one with the constructor and start() that main.py calls
Managers == {"src", "with_poll_interval"}

InitHandoff ==
    /\ hmain = "not_started"
    /\ manager = "none"
    /\ video_events = {}
    /\ handed = {}

\* watcher, process_video_file: the video is registered, its transcription
\* job is created through the API, then video.created is published; an
\* error of the publish is logged.  The video of job i is video i
process_video_file ==
    /\ Len(jobs) < MaxJobs
    /\ jobs' = Append(jobs, NewJob)
    /\ \/ video_events' = video_events \cup {Len(jobs) + 1}
       \/ video_events' = video_events
    /\ UNCHANGED <<now, retry_response, ncalls, ppc, pjob, events>>
    /\ UNCHANGED <<hmain, manager, handed>>
    /\ UNCHANGED <<qmvars, prvars, clvars, csvars, pbvars, dwvars, mdvars, rsvars>>

\* run_event_based_worker up to the second subscribe_to_event:
\* TranscriptionQueueManager(max_workers=, poll_interval=) raises TypeError
\* with the module under src, or connect() raises; "except Exception" logs
\* it and the function returns
run_event_based_worker(m) ==
    /\ hmain = "not_started"
    /\ manager' = m
    /\ \/ /\ m # "src"
          /\ hmain' = "subscribed"
       \/ hmain' = "exited"
    /\ UNCHANGED <<video_events, handed>>
    /\ UNCHANGED <<qmvars, stvars, prvars, clvars, csvars, pbvars, dwvars, mdvars, rsvars>>

\* run_event_based_worker, "Process any existing pending jobs": one
\* get_next_transcription_job_api(), which gives None when the request
\* fails, and add_job of the job it returned; then start_consuming()
check_existing_pending_jobs ==
    /\ hmain = "subscribed"
    /\ \E job \in get_next_transcription_job \cup {NoJob} :
          handed' = IF job # NoJob THEN handed \cup {job} ELSE handed
    /\ hmain' = "consuming"
    /\ UNCHANGED <<manager, video_events>>
    /\ UNCHANGED <<qmvars, stvars, prvars, clvars, csvars, pbvars, dwvars, mdvars, rsvars>>

\* the job handle_video_created_event hands over for video v when
\* get_next_transcription_job_api() returned job: 'if job and
\* job["video_id"] == video_id'
JobForVideo(job, v) == IF job # NoJob /\ job = v THEN {job} ELSE {}

\* handle_video_created_event for the event of video v
handle_video_created_event(v) ==
    /\ hmain = "consuming"
    /\ v \in video_events
    /\ video_events' = video_events \ {v}
    /\ \E job \in get_next_transcription_job \cup {NoJob} :
          handed' = handed \cup JobForVideo(job, v)
    /\ UNCHANGED <<hmain, manager>>
    /\ UNCHANGED <<qmvars, stvars, prvars, clvars, csvars, pbvars, dwvars, mdvars, rsvars>>

\* handle_job_status_changed_event of the service for the event
\* {job_type: transcription, job_id: j, status: pending}: the job is fetched
\* by id and handed over, or the GET fails and the event is dropped
job_status_changed_event(j) ==
    /\ hmain = "consuming"
    /\ j \in events
    /\ events' = events \ {j}
    /\ \/ handed' = handed \cup {j}
       \/ handed' = handed
    /\ UNCHANGED <<jobs, now, retry_response, ncalls, ppc, pjob>>
    /\ UNCHANGED <<hmain, manager, video_events>>
    /\ UNCHANGED <<qmvars, prvars, clvars, csvars, pbvars, dwvars, mdvars, rsvars>>

\* a worker thread takes a job that was handed over and
\* process_transcription_job marks it started
start_handed_job(j) ==
    /\ j \in handed
    /\ j \in Pending
    /\ jobs' = [jobs EXCEPT ![j] = mark_job_started(@)]
    /\ UNCHANGED <<now, retry_response, ncalls, ppc, pjob, events>>
    /\ UNCHANGED <<hovars>>
    /\ UNCHANGED <<qmvars, prvars, clvars, csvars, pbvars, dwvars, mdvars, rsvars>>

NextHandoff ==
    \/ Tick
    \/ process_video_file
    \/ upload_video
    \/ \E m \in Managers : run_event_based_worker(m)
    \/ check_existing_pending_jobs
    \/ \E v \in 1..MaxJobs : handle_video_created_event(v)
    \/ \E j \in 1..MaxJobs : job_status_changed_event(j)
    \/ \E j \in 1..MaxJobs : start_handed_job(j)

\* ============================= TranscriptionQueueManager, start() after stop()
Threads == 1..(MaxStarts * MaxWorkers)

InitRestart ==
    /\ tpos = [t \in Threads |-> "unborn"]
    /\ nthreads = 0
    /\ workers = {}
    /\ nstarts = 0

Live == {t \in Threads : tpos[t] \in {"get", "busy"}}

\* start(job_processor): returns at once on a running manager; otherwise
\* sets running and spawns max_workers threads, which enter their loop
manager_start ==
    /\ nstarts < MaxStarts
    /\ nstarts' = nstarts + 1
    /\ IF running
          THEN UNCHANGED <<running, tpos, nthreads, workers>>
          ELSE /\ running' = TRUE
               /\ tpos' = [t \in Threads |->
                              IF t \in (nthreads + 1)..(nthreads + MaxWorkers)
                                 THEN "get" ELSE tpos[t]]
               /\ nthreads' = nthreads + MaxWorkers
               /\ workers' = workers \cup (nthreads + 1)..(nthreads + MaxWorkers)
    /\ UNCHANGED <<job_queue, active_jobs, lock, wpc, wjob, wres, apc, ajob,
                   model_lock, model_loaded, calls, dups, executions>>
    /\ UNCHANGED <<stvars, prvars, clvars, csvars, pbvars, dwvars, mdvars, hovars>>

\* stop(): returns at once on a stopped manager; otherwise clears running and
\* joins every thread of self.workers for at most 5 seconds.  A thread
\* waiting in get(timeout=1) sees the flag within the second and ends, unless
\* a job arrives first; a busy thread ends if its job finishes in time and
\* outlives the join if not.  self.workers is emptied
manager_stop ==
    /\ IF ~running
          THEN UNCHANGED <<running, tpos, workers>>
          ELSE /\ running' = FALSE
               /\ \E outlive \in SUBSET Live :
                     tpos' = [t \in Threads |->
                                 IF t \in Live
                                    THEN (IF t \in outlive THEN "busy" ELSE "exited")
                                    ELSE tpos[t]]
               /\ workers' = {}
    /\ UNCHANGED <<nthreads, nstarts>>
    /\ UNCHANGED <<job_queue, active_jobs, lock, wpc, wjob, wres, apc, ajob,
                   model_lock, model_loaded, calls, dups, executions>>
    /\ UNCHANGED <<stvars, prvars, clvars, csvars, pbvars, dwvars, mdvars, hovars>>

\* _worker_thread: job_queue.get(timeout=1) returned a job and the thread
\* runs the processor on it
thread_get(t) ==
    /\ tpos[t] = "get"
    /\ tpos' = [tpos EXCEPT ![t] = "busy"]
    /\ UNCHANGED <<nthreads, workers, nstarts>>
    /\ UNCHANGED <<qmvars, stvars, prvars, clvars, csvars, pbvars, dwvars, mdvars,
                   hovars>>

\* "while self.running", the loop test of thread t
LoopTest(t) == running

\* _worker_thread: the job is done (removal, task_done()) and the loop test
\* is made: back into get, or the thread ends
thread_done(t) ==
    /\ tpos[t] = "busy"
    /\ tpos' = [tpos EXCEPT ![t] = IF LoopTest(t) THEN "get" ELSE "exited"]
    /\ UNCHANGED <<nthreads, workers, nstarts>>
    /\ UNCHANGED <<qmvars, stvars, prvars, clvars, csvars, pbvars, dwvars, mdvars,
                   hovars>>

NextRestart ==
    \/ manager_start
    \/ manager_stop
    \/ \E t \in Threads : thread_get(t)
    \/ \E t \in Threads : thread_done(t)

\* =========================================================== specifications
Init == InitQM /\ InitStore /\ InitProc /\ InitClient /\ InitConsumer /\ InitPublish
        /\ InitMain /\ InitModel /\ InitHandoff /\ InitRestart
Next == NextQM
Spec == Init /\ [][Next]_vars

\* a step of some thread inside get_whisperx_model or transcribe_with_whisperx
LockStep ==
    \E w \in Workers :
        \/ get_whisperx_model(w)
        \/ load_model(w)
        \/ inference_enter(w)
        \/ inference_exit(w)

\* the threads of the queue manager are scheduled, and the calls a thread
\* makes while it holds _model_lock return or raise: as long as some thread
\* can go on inside these functions, one does
Fairness == WF_vars(LockStep)

SpecFair == Spec /\ Fairness

SpecStore == Init /\ [][NextStore]_vars

SpecEvents == Init /\ [][NextEvents]_vars

SpecProc == Init /\ [][NextProc]_vars

SpecClient == Init /\ [][NextClient]_vars

SpecPublish == Init /\ [][NextPublish]_vars

SpecMain == Init /\ [][NextMain]_vars

SpecModel == Init /\ [][NextModel]_vars

SpecHandoff == Init /\ [][NextHandoff]_vars

SpecRestart == Init /\ [][NextRestart]_vars

SpecConsumer == Init /\ [][NextConsumer]_vars

\* ===================================================== Queue Manager claims
CountCallers(pos, j) == Cardinality({c \in Callers : apc[c] = pos /\ ajob[c] = j})
CountTaken(j)        == Cardinality({w \in Workers : wpc[w] = "process" /\ wjob[w] = j})
CountQueued(j)       == Cardinality({i \in DOMAIN job_queue : job_queue[i] = j})

NoDoubleExecution ==
    \A w1, w2 \in Workers :
        (w1 # w2 /\ wpc[w1] \in InProcessor /\ wpc[w2] \in InProcessor)
            => wjob[w1] # wjob[w2]

DupAddIsNoop ==
    \A c \in Callers :
        (/\ apc[c] = "lock"
         /\ apc'[c] # "lock"
         /\ (Queued(ajob[c]) \/ Executing(ajob[c])))
            => /\ apc'[c] = "idle"
               /\ job_queue' = job_queue
               /\ active_jobs' = active_jobs

\* C1: processor_fn never runs the same job id in two worker threads at the
\* same time, and an add_job whose id is queued or executing returns without
\* changing the queue or the active set.
C1_AtMostOneActive == []NoDoubleExecution /\ [][DupAddIsNoop]_vars

\* a duplicate add_job was turned away while its job runs and a free worker
\* thread sits in the loop
C1_Witness ==
    \E j \in JobIds :
        /\ Executing(j)
        /\ calls[j] >= 2
        /\ dups[j] >= 1
        /\ \A c \in Callers : apc[c] = "idle"
        /\ job_queue = <<>>
        /\ \E w \in Workers : wpc[w] = "loop"

\* C2: add_job calls that arrive while the job is queued or being processed
\* add no invocation: for every job the invocations of processor_fn plus the
\* entries still waiting (or just taken) equal the add_job calls that arrived outside that
\* window, so a job delivered by the event path and by the poll path inside
\* the window is processed exactly once.
C2_DedupExactlyOnce ==
    \A j \in JobIds :
        executions[j] + CountTaken(j) + CountQueued(j) + CountCallers("put", j)
            = calls[j] - dups[j] - CountCallers("lock", j)

\* both paths delivered job j, one delivery fell into the window, the job ran
\* once and is finished
C2_Witness ==
    \E j \in JobIds :
        /\ calls[j] = 2
        /\ dups[j] = 1
        /\ executions[j] = 1
        /\ ~InFlight(j)
        /\ j \notin active_jobs
        /\ \A c \in Callers : apc[c] = "idle"

\* C3: at most one worker thread is inside the section of
\* transcribe_with_whisperx that _model_lock guards.
C3_SerializedInference == Cardinality({w \in Workers : wpc[w] = "inference"}) <= 1

\* one thread is in the inference section while another waits for the lock
C3_Witness ==
    \E w1, w2 \in Workers :
        /\ wpc[w1] = "inference"
        /\ wpc[w2] = "want_lock"
        /\ wjob[w1] # wjob[w2]

NoStaleActive == \A j \in active_jobs : InFlight(j)

RemovedOnExit ==
    \A w \in Workers :
        (wpc[w] = "returned" /\ wpc'[w] # "returned") => wjob[w] \notin active_jobs'

LaterAddAccepted ==
    \A c \in Callers :
        (apc[c] = "lock" /\ apc'[c] # "lock" /\ ~InFlight(ajob[c])) => apc'[c] = "put"

\* C12: whatever the outcome of processor_fn (success, failure, exception),
\* the worker thread removes the job id from the active set before it goes
\* back to the queue: the active set never keeps an id that is neither
\* queued nor held by a worker, and an add_job of an id that is not in
\* flight is accepted.
C12_RemovedWhateverOutcome ==
    []NoStaleActive /\ [][RemovedOnExit /\ LaterAddAccepted]_vars

\* processor_fn raised for a job, the worker has removed the id, and a new
\* add_job of the same id has passed the duplicate test
C12_Witness ==
    \E w \in Workers, c \in Callers :
        /\ wpc[w] = "task_done"
        /\ wres[w] = "raised"
        /\ apc[c] = "put"
        /\ ajob[c] = wjob[w]

NoThreadLostWhileRunning == running => \A w \in Workers : wpc[w] # "exited"

ExitOnlyWhenStopped ==
    \A w \in Workers :
        (wpc'[w] = "exited" /\ wpc[w] # "exited")
            => (wpc[w] \in {"loop", "task_done"} /\ ~running)

ReturnsToLoop ==
    \A w \in Workers :
        (wpc[w] = "task_done" /\ wpc'[w] # "task_done")
            => wpc'[w] = IF running THEN "loop" ELSE "exited"

\* C13: an error raised by processor_fn, or by the inference call inside it,
\* never ends a worker thread: a thread ends only from its loop test after
\* running was cleared, and after every outcome it goes back to the loop.
C13_WorkerSurvivesErrors ==
    []NoThreadLostWhileRunning /\ [][ExitOnlyWhenStopped /\ ReturnsToLoop]_vars

\* the processor of a thread raised during the inference of one job while
\* the manager is running and another job waits in the queue
C13_Witness ==
    \E w \in Workers :
        /\ running
        /\ wpc[w] = "task_done"
        /\ wres[w] = "raised"
        /\ model_loaded
        /\ job_queue # <<>>

\* ========================================================= Job Store claims
Forward ==
    {<<"pending", "processing">>, <<"pending", "completed">>, <<"pending", "failed">>,
     <<"processing", "completed">>, <<"processing", "failed">>}

StatusStepAllowed ==
    \A j \in DOMAIN jobs :
        jobs'[j].status # jobs[j].status =>
            \/ <<jobs[j].status, jobs'[j].status>> \in Forward
            \/ /\ jobs[j].status = "failed"
               /\ jobs'[j].status = "pending"
               /\ retry_transcription_job(j)

\* C4: the status values a job takes form a subsequence of
\* pending -> processing -> {completed | failed}; failed -> pending happens
\* only through the retry operation.
C4_StatusMonotonic == [][StatusStepAllowed]_vars

\* C5: two claim_next calls that are in progress at the same time never
\* return the same job.
C5_NoSharedClaim ==
    \A p, q \in Procs :
        (p # q /\ ppc[p] = "claim_ret" /\ ppc[q] = "claim_ret" /\ pjob[p] # NoJob)
            => pjob[p] # pjob[q]

\* C6: at most one worker process holds the claim on a job: two workers are
\* never both running inference for the same job.
C6_SingleClaimHolder ==
    \A p, q \in Procs :
        (p # q /\ ppc[p] = "inference" /\ ppc[q] = "inference")
            => pjob[p] # pjob[q]

ClaimNextResult(p) ==
    LET r == pjob'[p]
    IN  IF \A i \in DOMAIN jobs : jobs[i].status # "pending"
          THEN r = NoJob
          ELSE /\ r \in DOMAIN jobs
               /\ jobs[r].status = "pending"
               /\ \A i \in DOMAIN jobs :
                     jobs[i].status = "pending" => jobs[r].created_at <= jobs[i].created_at

\* C7: claim_next returns a pending job with the smallest created_at, None
\* when no job is pending, and never a job that is not pending.
C7_ClaimNextOldestPending ==
    [][\A p \in Procs :
          (ppc[p] = "claim_call" /\ ppc'[p] = "claim_ret") => ClaimNextResult(p)]_vars

\* a claim returned job r although an older job exists that is no longer
\* pending and a younger pending job waits behind r
C7_Witness ==
    \E p \in Procs :
        /\ ppc[p] = "claim_ret"
        /\ pjob[p] # NoJob
        /\ jobs[pjob[p]].status = "pending"
        /\ \E i \in DOMAIN jobs :
              jobs[i].status # "pending" /\ jobs[i].created_at <= jobs[pjob[p]].created_at
        /\ \E i \in DOMAIN jobs :
              jobs[i].status = "pending" /\ jobs[i].created_at > jobs[pjob[p]].created_at

StartOnlyFromPending ==
    \A p \in Procs :
        (/\ ppc[p] = "start_call"
         /\ ppc'[p] = "inference"
         /\ jobs[pjob[p]].status # "pending")
            => /\ jobs'[pjob[p]].status = jobs[pjob[p]].status
               /\ jobs'[pjob[p]].started_at = jobs[pjob[p]].started_at

StartedAtWrittenOnce ==
    \A j \in DOMAIN jobs :
        (jobs'[j].started_at # jobs[j].started_at /\ jobs'[j].started_at # Null)
            => (jobs[j].status = "pending" /\ jobs'[j].status = "processing")

\* C8: started_at is written only by the pending -> processing transition; a
\* mark_started applied to a job that is not pending changes neither status
\* nor started_at.
C8_StartedAtOnce == [][StartOnlyFromPending /\ StartedAtWrittenOnce]_vars

RetryEffect(j) ==
    IF jobs[j].status = "failed"
      THEN /\ retry_response' = 200
           /\ jobs'[j] = [status |-> "pending", created_at |-> jobs[j].created_at,
                          started_at |-> Null, completed_at |-> Null,
                          processing_time_seconds |-> Null, error_details |-> Null]
           /\ \A i \in DOMAIN jobs : i # j => jobs'[i] = jobs[i]
      ELSE /\ retry_response' = 400
           /\ jobs' = jobs

\* C9: retry on a failed job sets status to pending and clears started_at,
\* completed_at, processing_time_seconds and error_details; on a job in any
\* other status it is rejected with an error and changes no field.
C9_Retry == [][\A j \in DOMAIN jobs : retry_transcription_job(j) => RetryEffect(j)]_vars

\* a job that failed after it was started has been reset by retry, and a
\* later retry of the reset job was rejected
C9_Witness ==
    /\ retry_response = 400
    /\ \E j \in DOMAIN jobs :
          /\ jobs[j].status = "pending"
          /\ jobs[j].created_at < now
          /\ jobs[j].error_details = Null
    /\ ncalls >= 3
    /\ \A p \in Procs : ppc[p] = "idle"

\* C11: a job that is completed or failed is not handed to the processing
\* function again unless retry has reset it: the delivery of a
\* job.status.changed{status=pending} event for a job that is completed or
\* failed by then starts no processing attempt.
C11_NoReprocessingOfFinished ==
    [][\A p \in Procs, j \in DOMAIN jobs :
          (handle_job_status_changed_event(p, j) /\ jobs[j].status \in {"completed", "failed"})
              => ppc'[p] = "idle"]_vars

\* C10: error_details is non-null only if status is failed, and
\* processing_time_seconds is non-null only if status is completed.
C10_NullDiscipline ==
    \A j \in DOMAIN jobs :
        /\ jobs[j].error_details # Null => jobs[j].status = "failed"
        /\ jobs[j].processing_time_seconds # Null => jobs[j].status = "completed"

\* ============================================== processing function claims
\* C14: every processing attempt calls mark_started exactly once and exactly
\* one of mark_completed / mark_failed exactly once, on every path: when the
\* processing function has returned, one "processing" call and one
\* "completed" or "failed" call were made.
C14_EachCallOncePerAttempt ==
    step = "done" => (nstarted = 1 /\ ncompleted + nfailed = 1)

\* C15: for every job kind, an exception raised during inference ends in one
\* mark_failed call whose error_details carry the message and a trace of at
\* most TraceBound characters.
C15_BoundedTrace ==
    (step = "done" /\ raised_in = "inference")
        => /\ nfailed = 1
           /\ ncompleted = 0
           /\ sent.error
           /\ sent.traceback # Null
           /\ sent.traceback <= TraceBound

\* ================================================== message handler claims
InHandler == IF mpc \in {"json_loads", "callback", "basic_ack", "basic_nack"} THEN 1 ELSE 0

AckOnlyAfterSuccess ==
    acked' = acked + 1 => (mbody # "invalid_json" /\ cb_out = "returned")

NackOnlyAfterError ==
    nacked' = nacked + 1
        => /\ mbody = "invalid_json" \/ cb_out = "raised"
           /\ inbox' # <<>>
           /\ Head(inbox') = mbody

Settles ==
    (InHandler = 1 /\ mpc' = "idle") => (acked' + nacked' = acked + nacked + 1)

C17_MalformedIsNacked ==
    [][acked' = acked + 1 => mbody = "well_formed"]_vars

\* ================================================== RabbitMQClient claims
\* C18: connect() on a client whose connection is open makes no connection
\* attempt and leaves connection and channel as they are.
C18_ConnectIdempotent ==
    [][(connect /\ connection = "open")
          => /\ cpc' = "idle"
             /\ nattempts' = 0
             /\ connection' = connection
             /\ channel' = channel]_vars

\* connect() has just returned at once on an open connection with a channel
C18_Witness ==
    /\ last_op = "connect_noop"
    /\ connection = "open"
    /\ channel = "set"
    /\ cpc = "idle"

IsConnectionError(e) == e \in {"ConnectionError", "AMQPConnectionError"}

\* C19: connect() makes at most max_retries attempts, sleeps retry_delay
\* between two attempts, returns after the first attempt that succeeds, and
\* after max_retries failures lets a connection error out to the caller.
C19_BoundedConnect ==
    /\ nattempts <= max_retries
    /\ slept = retry_delay * attempt
    /\ cpc = "attempt" => nattempts = attempt
    /\ last_op = "connect_returned" => (connection \in {"open", "closed"} /\ channel = "set")
    /\ last_op = "connect_raised" => (nattempts = max_retries /\ IsConnectionError(raised))

ClearsOnClose ==
    close => /\ connection' = "none"
             /\ channel' = "none"
             /\ last_op' = "close_returned"

FreshAfterClose ==
    (connect /\ last_op = "close_returned") => (cpc' = "attempt" /\ nattempts' = 0)

\* C20: close() never raises and leaves connection and channel cleared,
\* whether or not connection.close() failed; the connect() that follows
\* starts a new connection attempt.
C20_CloseClears == [][ClearsOnClose /\ FreshAfterClose]_vars

\* connection.close() failed inside close(), and the connect() called after
\* it is about to dial
C20_Witness ==
    /\ close_err
    /\ connection = "none"
    /\ channel = "none"
    /\ cpc = "attempt"
    /\ nattempts = 0

\* ============================================ RabbitMQClient.publish_event claims
AtMostMaxPasses == npasses' <= max_retries

ClosedAfterFailure ==
    (pubpc = "caught" /\ pubpc' # "caught")
        => (connection' = "none" /\ channel' = "none")

ClosedBeforeNextPass ==
    pubpc' = "ensure" /\ pubpc = "sleep" => (connection = "none" /\ channel = "none")

ReturnsOnlyAfterPublish ==
    (pub_out' = "returned" /\ pub_out # "returned")
        => (pubpc = "send" /\ connection = "open" /\ body' # Null)

RaisesAfterLastFailure ==
    /\ (pubpc = "caught" /\ pubpc' # "caught" /\ pattempt = max_retries - 1)
          => pub_out' = "raised"
    /\ (pub_out' = "raised" /\ pub_out # "raised")
          => (pubpc = "caught" /\ npasses = max_retries)

\* C21: publish_event makes at most max_retries passes; after a failed pass
\* it closes the client (connection and channel cleared) before the next
\* pass, it returns only after a basic_publish that succeeded, and after the
\* last failed pass it raises.
C21_BoundedPublish ==
    [][/\ AtMostMaxPasses
       /\ ClosedAfterFailure
       /\ ClosedBeforeNextPass
       /\ ReturnsOnlyAfterPublish
       /\ RaisesAfterLastFailure]_vars

\* publish_event has raised after max_retries failed passes and left the
\* client closed
C21_Witness ==
    /\ pub_out = "raised"
    /\ npasses = max_retries
    /\ connection = "none"
    /\ channel = "none"

\* C22: a dict whose serialized form is longer than SizeBound goes out as a
\* message of at most SizeBound characters that holds the truncation marker.
C22_OversizedIsTruncated ==
    [][(pubpc = "send" /\ pub_out' = "returned" /\ Dumps(payload) > SizeBound)
          => (body' <= SizeBound /\ body_marked')]_vars

\* C23: a dict that publish_event has truncated keeps its trace lengths when
\* it is truncated again, and the message published from it is no longer
\* than the first message published from it.
C23_TruncationIdempotent ==
    [][(pubpc = "send" /\ payload.marked)
          => /\ payload'.traceback = payload.traceback
             /\ payload'.details = payload.details
             /\ (pub_out' = "returned" /\ first_body # Null) => body' <= first_body]_vars

\* ======================================================= main module claims
\* C24: when start_consuming() has ended because of a keyboard interrupt or
\* a stop_consuming() call, the client is closed: connection and channel are
\* cleared.
C24_ClosedAfterConsuming ==
    (mpos = "exited" /\ ended_by \in {"interrupt_in_consume", "stop_consuming"})
        => (connection = "none" /\ channel = "none")

\* C25: a service whose connect() has failed in every attempt does not
\* exit, it goes on to serve the pending jobs by polling.
C25_SurvivesConnectFailure ==
    ended_by = "connect_raised" => mpos # "exited"

PollNeverEnds ==
    (mode' = "poll" /\ mpos' = "exited") => ended_by' = "interrupt_in_poll"

HandsOnWhatItGets ==
    (mpos = "poll" /\ mpos' = "poll_sleep")
        => /\ nstore' = nstore + 1
           /\ last_poll' = "job" => nmain' = nmain + 1

SleepsThenPolls ==
    (mpos = "poll_sleep" /\ mpos' # mpos) => mpos' \in {"poll", "exited"}

\* C26: in polling mode the main loop calls claim_next again and again, one
\* sleep apart, hands on every job it gets, and does not end by itself.
C26_PollLoop == [][PollNeverEnds /\ HandsOnWhatItGets /\ SleepsThenPolls]_vars

\* C27: a job.status.changed event of another job type, or with a status
\* other than pending, causes no Store call, no processing and no enqueue,
\* and leaves the queue manager as it is.
C27_ForeignEventIgnored ==
    [][(nevents' = nevents + 1
          /\ (last_event'.job_type # svc \/ last_event'.status # "pending"))
          => /\ nstore' = nstore
             /\ ninline' = ninline
             /\ nmain' = nmain
             /\ backlog' = backlog
             /\ UNCHANGED qmvars]_vars

\* an event for the service's own job type with a status other than pending
\* has been handled, and nothing was processed
C27_Witness ==
    /\ nevents = 1
    /\ last_event.complete
    /\ last_event.job_type = svc
    /\ last_event.status = "completed"
    /\ ninline = 0
    /\ mpos = "consuming"

\* C28: the thread that runs the consume loop never runs a processing
\* function itself.
C28_ConsumerNeverProcesses == ninline = 0

\* ============================================================== stop() claims
TakenOnlyWhileRunning ==
    \A w \in Workers : (wpc'[w] = "process" /\ wpc[w] # "process") => running

StopInterruptsNothing ==
    stop => (wpc' = wpc /\ wjob' = wjob /\ job_queue' = job_queue)

ExitOnlyBetweenJobs ==
    \A w \in Workers :
        (wpc'[w] = "exited" /\ wpc[w] # "exited") => wpc[w] \in {"loop", "task_done"}

\* C29: once stop() has cleared running, no worker thread takes a job up,
\* a job added after stop() included, and stop() leaves a thread that is
\* busy with a job to finish it.
C29_StopPreventsNewJobs ==
    [][TakenOnlyWhileRunning /\ StopInterruptsNothing /\ ExitOnlyBetweenJobs]_vars

\* ======================================================== _model_lock claims
\* the positions of a worker thread at which it talks to the API
StoreCallPositions == {"process", "report"}

OnlyWorkersHold == model_lock \in Workers \cup {NoThread}

NotHeldAcrossStoreCalls ==
    \A w \in Workers : wpc[w] \in StoreCallPositions => model_lock # w

\* C30: _model_lock is taken by worker threads only, and a thread that
\* holds it is not at one of its calls to the API.
C30_LockNotHeldAcrossStore == OnlyWorkersHold /\ NotHeldAcrossStoreCalls

\* one thread reports its result to the API while another thread holds the
\* lock for its inference
C30_Witness ==
    \E w1, w2 \in Workers :
        /\ wpc[w1] = "report"
        /\ wpc[w2] = "inference"
        /\ model_lock = w2

\* ==================================================== status call claims
\* a step of the attempt that makes a status call
StatusCall ==
    nstarted' # nstarted \/ ncompleted' # ncompleted \/ nfailed' # nfailed

AtMostOncePerAttempt == nstarted <= 1 /\ ncompleted <= 1 /\ nfailed <= 1

FailedCallLeavesStatus == (StatusCall /\ response' = "error") => stored' = stored

FailedCallGoesOn ==
    (StatusCall /\ response' = "error")
        => /\ step' \in {"read", "done"}
           /\ step' = "done" => returned' \in {"True", "False"}

\* C31: a Store status call (start, complete, fail) that fails is logged and
\* not repeated: each of the three calls is made at most once per attempt,
\* the failed call leaves the job's status in the Store as it was, and the
\* processing function goes on and returns to the worker.
C31_FailedCallNotRepeated ==
    []AtMostOncePerAttempt /\ [][FailedCallLeavesStatus /\ FailedCallGoesOn]_vars

\* the start call went through, the inference raised, the fail call failed:
\* the function has returned and the job is still "processing"
C31_Witness ==
    /\ step = "done"
    /\ raised_in = "inference"
    /\ nfailed = 1
    /\ response = "error"
    /\ stored = "processing"
    /\ returned = "False"

\* C34: the inference call of an attempt is invoked only when the Store has
\* recorded the job as processing; after a failed start call no inference
\* runs in that attempt.
C34_InferenceOnlyWhenStarted == step = "inference" => stored = "processing"

\* a step in which the publish after a request to the Store failed
BusFailure == nbus' = nbus + 1

UpdateKept ==
    BusFailure
        => /\ response' = "ok"
           /\ nstarted' # nstarted => stored' = "processing"
           /\ ncompleted' # ncompleted => stored' = "completed"
           /\ nfailed' # nfailed => stored' = "failed"
           /\ step = "save" => (artifact' /\ stored' = stored)

NotFailedByBus == BusFailure => step' # "except"

\* an attempt whose requests and inference all went through ends
\* "completed", however its publishes ended
CompletedDespiteBus ==
    (step = "done" /\ nbus >= 1 /\ ncompleted = 1 /\ response = "ok")
        => (stored = "completed" /\ nfailed = 0 /\ returned = "True")

\* C38: a failure to connect to or to publish on the Event Bus during a job
\* status update or an artifact creation leaves the Store update that
\* preceded it in place and never gets the job marked failed: the attempt
\* goes on as it does after a publish that went through.
C38_BusFailureNotFatal ==
    []CompletedDespiteBus /\ [][UpdateKept /\ NotFailedByBus]_vars

\* every publish of an attempt failed (after the start call, after the
\* creation of the artifact and after the complete call) and the job is
\* completed with its artifact stored
C38_Witness ==
    /\ step = "done"
    /\ nbus = 3
    /\ artifact
    /\ stored = "completed"
    /\ returned = "True"

\* ====================================================== WhisperX model claims
LoadedOnce == nloads <= 1

SameHandle ==
    \A w \in Workers :
        (model # NoModel /\ tpc[w] = "with" /\ tpc'[w] = "idle")
            => (got'[w] = model /\ nloads' = nloads)

\* C32: the Inference Engine handle is a lazily initialized singleton: the
\* model is loaded at most once per process, and once a load has succeeded
\* every later request returns that same handle and loads nothing.
C32_LazySingleton == []LoadedOnce /\ [][SameHandle]_vars

\* ============================================================ handoff claims
\* the service is past its startup, or has ended, and no event waits for it
Settled ==
    /\ hmain \in {"consuming", "exited"}
    /\ video_events = {}
    /\ events = {}

\* C33: in event mode every job that is pending in the Store at startup or
\* is created later is eventually handed to the Queue Manager, also with
\* several jobs pending at once: once the service has handled every event
\* published so far, no pending job is left that it has not handed over.
C33_PendingJobsHandedOver == Settled => Pending \subseteq handed

\* ========================================================= active set claims
\* the ids taken by a worker thread and not yet removed from active_jobs
Held == {wjob[w] : w \in {x \in Workers : wpc[x] \in Holding}}

ActiveIsQueuedPlusHeld == lock = NoOwner => active_jobs = Range(job_queue) \cup Held

SnapshotOrdered ==
    lock = NoOwner => get_queue_status.queue_size <= get_queue_status.active_jobs

\* C35: whenever no add_job call holds the lock, the active set is exactly
\* the ids waiting in the queue plus the ids held by worker threads, and
\* every get_queue_status() snapshot has queue_size <= active_jobs.
C35_ActiveSetExact == ActiveIsQueuedPlusHeld /\ SnapshotOrdered

\* a snapshot could be taken while one job waits in the queue and another is
\* in its inference
C35_Witness ==
    /\ lock = NoOwner
    /\ Len(job_queue) = 1
    /\ \E w \in Workers : wpc[w] = "inference" /\ wjob[w] \notin Range(job_queue)
    /\ Cardinality(active_jobs) = 2

\* ===================================================== start() / stop() claims
\* the threads that are in, or will go back to, job_queue.get
Pulling == {t \in Threads : tpos[t] = "get"}

PullersBounded == Cardinality(Pulling) <= MaxWorkers

StartSpawns ==
    nstarts' = nstarts + 1
        => nthreads' = nthreads + (IF running THEN 0 ELSE MaxWorkers)

OldThreadsDoNotResume ==
    \A t \in Threads :
        (tpos[t] = "busy" /\ tpos'[t] = "get") => t \in workers

\* C36: after any sequence of start() and stop() calls at most max_workers
\* live threads pull from the queue: start() on a stopped manager spawns
\* exactly max_workers threads, start() on a running manager spawns none,
\* and a thread of an earlier start that outlived stop() does not go back to
\* pulling jobs.
C36_AtMostMaxWorkersPull ==
    []PullersBounded /\ [][StartSpawns /\ OldThreadsDoNotResume]_vars

\* ============================================================ connect() claims
\* a step in which connect() returns without raising: from its loop, or at
\* once on a connection that is open
ConnectReturns ==
    \/ cpc = "attempt" /\ cpc' = "idle" /\ last_op' = "connect_returned"
    \/ cpc = "idle" /\ cpc' = "idle" /\ last_op # "connect_noop" /\ last_op' = "connect_noop"

\* C37: whenever connect() returns without raising, the client has an open
\* connection and a channel, also after an earlier connect() that opened the
\* connection and failed before the channel was created or the exchange
\* declared.
C37_ConnectedMeansChannel ==
    [][ConnectReturns => (connection' = "open" /\ channel' # "none")]_vars

\* ====================================================== lock liveness claims
\* the positions where a thread waits to take _model_lock
WaitsForLock == {"get_model", "want_lock"}

NoReacquire == \A w \in Workers : wpc[w] \in WaitsForLock => model_lock # w

HolderInsideWith ==
    model_lock # NoThread => wpc[model_lock] \in {"loading", "inference"}

\* no thread stays for ever at a place where it waits for the lock
WaitingEnters == \A w \in Workers : []<>(wpc[w] \notin WaitsForLock)

\* C39: no worker thread tries to take the non-reentrant model lock while it
\* holds it, every way out of the sections under the lock releases it, so
\* the lock is held only by a thread inside such a section, and a thread
\* that waits for the lock eventually enters.
C39_NoSelfDeadlock == []NoReacquire /\ []HolderInsideWith /\ WaitingEnters

\* a thread waits inside get_whisperx_model while another thread holds the
\* lock for its inference
C39_Witness ==
    \E w1, w2 \in Workers :
        /\ wpc[w1] = "get_model"
        /\ wpc[w2] = "inference"
        /\ model_lock = w2

====
